---- MODULE Spec2Model ----
(***************************************************************************)
(* The semantic-primes discovery pipeline of word-net/scripts:             *)
(* parseWordNet, buildDependencyGraph, findSCCs, calculatePrimeScore and   *)
(* main of discover-semantic-primes.mjs.                                   *)
(*                                                                         *)
(* Text is modelled by TLA+ strings read character by character (Len,      *)
(* SubSeq, \o).  A JavaScript Map or Set is modelled by the sequence of    *)
(* its keys or members in insertion order (JavaScript iterates both in     *)
(* insertion order) together with a function from keys to values.          *)
(***************************************************************************)
EXTENDS Integers, Sequences, FiniteSets, TLC

VARIABLES
  argv,                 \* process.argv.slice(2)
  stopFile,             \* the lines of the --stop-words file
  STOP_WORDS,           \* the configured stop-word set
  fileExists,           \* existsSync(WORDNET_FILE)
  fileLines,            \* the lines readline yields for WORDNET_FILE
  pc,                   \* position in main()
  lineCount,            \* parseWordNet: lines consumed so far
  currentEntry,         \* parseWordNet: <<>> (null) or <<[lemmas, synsets]>>
  currentSynset,        \* parseWordNet: <<>> (null) or <<[id, partOfSpeech, definitions]>>
  inDefinition,
  definitionText,
  synsetToLemmas,       \* Map synsetId -> Set of lemmas
  synsetDefinitions,    \* Map synsetId -> [definitions, partOfSpeech]
  lemmaToDefinitions,   \* Map lemma -> list of [definition, partOfSpeech, synsetId]
  definitionWordCounts, \* Map word -> count
  selfReferences,       \* Set of lemmas
  graph,                \* Map word -> Set of words
  indices, lowlinks, onStack, stack, sccs, index,   \* findSCCs
  callStack,            \* the activations of strongConnect, innermost last
  processed,            \* findSCCs: position of the outer loop over graph.keys()
  wordToSCC,            \* main: Map word -> scc
  primes,               \* main: the list of prime records
  outputFile,           \* <<>> or <<the records written to OUTPUT_FILE>>
  exitCode,             \* <<>> while running, then <<the exit status>>
  corpus,               \* the records that fileLines is the text of
  text,                 \* argument of the function under check
  result,               \* its return value
  firstRun,             \* <<>> or <<the outcome of the previous run of main>>
  procs,                \* test-all: the state of the child process of each suite
  promises,             \* test-all: <<>> or <<the value runTest's promise resolved to>>
  results               \* test-all: main's list of results

vars == <<argv, stopFile, STOP_WORDS, fileExists, fileLines, pc, lineCount, currentEntry,
          currentSynset, inDefinition, definitionText, synsetToLemmas,
          synsetDefinitions, lemmaToDefinitions, definitionWordCounts,
          selfReferences, graph, indices, lowlinks, onStack, stack, sccs,
          index, callStack, processed, wordToSCC, primes, outputFile,
          exitCode, corpus, text, result, firstRun, procs, promises, results>>

(***************************************************************************)
(* Strings                                                                 *)
(***************************************************************************)
\* String.prototype.charAt: the character at position i, "" outside the string
Ch(s, i) == IF i >= 1 /\ i <= Len(s) THEN SubSeq(s, i, i) ELSE ""

Range(q) == {q[i] : i \in 1..Len(q)}

Min(a, b) == IF a <= b THEN a ELSE b

LowerLetters == "abcdefghijklmnopqrstuvwxyz"
UpperLetters == "ABCDEFGHIJKLMNOPQRSTUVWXYZ"

Chars(s) == {Ch(s, i) : i \in 1..Len(s)}

WhiteSpace == {" ", "\t", "\n", "\r"}

Letters == Chars(LowerLetters) \cup Chars(UpperLetters)

\* the regular-expression class \s, restricted to the characters of the model
IsSpace(c) == c \in WhiteSpace

\* the regular-expression class [a-zA-Z]
IsAlpha(c) == c \in Letters

LowerCaseOf ==
  [c \in Chars(UpperLetters) |->
     Ch(LowerLetters, CHOOSE i \in 1..Len(UpperLetters) : Ch(UpperLetters, i) = c)]

LowerOf(c) == IF c \in DOMAIN LowerCaseOf THEN LowerCaseOf[c] ELSE c

RECURSIVE MapChars(_, _, _)
MapChars(F(_), s, i) ==
  IF i > Len(s) THEN "" ELSE F(Ch(s, i)) \o MapChars(F, s, i + 1)

\* String.prototype.toLowerCase
toLowerCase(s) == MapChars(LowerOf, s, 1)

\* String.prototype.trim
RECURSIVE trim(_)
trim(s) ==
  IF s = "" THEN s
  ELSE IF IsSpace(Ch(s, 1)) THEN trim(SubSeq(s, 2, Len(s)))
  ELSE IF IsSpace(Ch(s, Len(s))) THEN trim(SubSeq(s, 1, Len(s) - 1))
  ELSE s

\* String.prototype.startsWith, and a literal at position i
StartsAt(s, i, lit) ==
  i >= 1 /\ i + Len(lit) - 1 <= Len(s) /\ SubSeq(s, i, i + Len(lit) - 1) = lit
startsWith(s, lit) == StartsAt(s, 1, lit)

\* String.prototype.includes
includes(s, lit) == \E i \in 1..(Len(s) - Len(lit) + 1) : StartsAt(s, i, lit)

\* .replace(/[^a-zA-Z\s]/g, ' ')
NonAlphaToSpace(c) == IF IsAlpha(c) \/ IsSpace(c) THEN c ELSE " "
replaceNonAlpha(s) == MapChars(NonAlphaToSpace, s, 1)

\* .split(/\s+/): the pieces between maximal runs of white space, the empty
\* pieces before a leading run and after a trailing run included
RECURSIVE splitWs(_, _, _)
splitWs(s, i, cur) ==
  IF i > Len(s) THEN <<cur>>
  ELSE IF IsSpace(Ch(s, i))
    THEN IF i > 1 /\ IsSpace(Ch(s, i - 1))
           THEN splitWs(s, i + 1, cur)
           ELSE <<cur>> \o splitWs(s, i + 1, "")
    ELSE splitWs(s, i + 1, cur \o Ch(s, i))

\* Array.prototype.filter
RECURSIVE filter(_, _)
filter(P(_), q) ==
  IF q = <<>> THEN <<>>
  ELSE IF P(Head(q)) THEN <<Head(q)>> \o filter(P, Tail(q))
  ELSE filter(P, Tail(q))

\* Set.prototype.add on the insertion-ordered members
SetAdd(q, x) == IF x \in Range(q) THEN q ELSE Append(q, x)

\* [...new Set(words)]: the distinct members in order of first occurrence
RECURSIVE uniq(_, _)
uniq(q, acc) == IF q = <<>> THEN acc ELSE uniq(Tail(q), SetAdd(acc, Head(q)))

(***************************************************************************)
(* Maps: the keys in insertion order and the value of each key             *)
(***************************************************************************)
FnSet(f, k, v) == [x \in (DOMAIN f) \cup {k} |-> IF x = k THEN v ELSE f[x]]

EmptyFn == [x \in {} |-> {}]

EmptyMap == [keys |-> <<>>, val |-> EmptyFn]

MapHas(m, k) == k \in DOMAIN m.val

MapGet(m, k) == m.val[k]

MapSet(m, k, v) == [keys |-> SetAdd(m.keys, k), val |-> FnSet(m.val, k, v)]

RECURSIVE reverse(_)
reverse(q) == IF q = <<>> THEN <<>> ELSE Append(reverse(Tail(q)), Head(q))

(***************************************************************************)
(* The variables an operation leaves alone, and their initial values       *)
(***************************************************************************)
UnchangedInput ==
  UNCHANGED <<argv, stopFile, STOP_WORDS, fileExists, fileLines, corpus>>

UnchangedParser ==
  UNCHANGED <<lineCount, currentEntry, currentSynset, inDefinition,
              definitionText, synsetToLemmas, synsetDefinitions>>

\* the tables left alone but for the word counts, which are emptied
CountsCleared ==
  /\ UNCHANGED <<lemmaToDefinitions, selfReferences>>
  /\ definitionWordCounts' = EmptyMap

UnchangedTables ==
  UNCHANGED <<lemmaToDefinitions, definitionWordCounts, selfReferences>>

UnchangedSCC ==
  UNCHANGED <<indices, lowlinks, onStack, stack, sccs, index, callStack, processed>>

UnchangedScoring == UNCHANGED <<wordToSCC, primes, outputFile, exitCode>>

UnchangedHarness == UNCHANGED <<text, result>>

UnchangedRunner == UNCHANGED <<firstRun, procs, promises, results>>

UnchangedOutsideSCC ==
  /\ UnchangedInput /\ UnchangedRunner /\ UnchangedParser /\ UnchangedTables
  /\ UnchangedScoring /\ UnchangedHarness
  /\ UNCHANGED <<graph, pc>>

InitInput ==
  /\ argv = <<>> /\ stopFile = <<>> /\ STOP_WORDS = {} /\ fileLines = <<>>
  /\ corpus = <<>> /\ fileExists = TRUE

InitParser ==
  /\ lineCount = 0 /\ currentEntry = <<>> /\ currentSynset = <<>>
  /\ inDefinition = FALSE /\ definitionText = ""
  /\ synsetToLemmas = EmptyMap /\ synsetDefinitions = EmptyMap

InitTables ==
  /\ lemmaToDefinitions = EmptyMap /\ definitionWordCounts = EmptyMap
  /\ selfReferences = <<>>

InitSCC ==
  /\ indices = EmptyFn /\ lowlinks = EmptyFn /\ onStack = {} /\ stack = <<>>
  /\ sccs = <<>> /\ index = 0 /\ callStack = <<>> /\ processed = 0

InitScoring ==
  wordToSCC = EmptyMap /\ primes = <<>> /\ outputFile = <<>> /\ exitCode = <<>>

InitHarness == text = "" /\ result = <<>>

InitRunner == firstRun = <<>> /\ procs = <<>> /\ promises = <<>> /\ results = <<>>

(***************************************************************************)
(* Stop words                                                              *)
(***************************************************************************)
DEFAULT_STOP_WORDS ==
  <<"a", "an", "the", "is", "are", "was", "were", "be", "been", "being",
    "have", "has", "had", "do", "does", "did", "will", "would", "could", "should",
    "may", "might", "must", "shall", "can", "need", "dare", "ought", "used",
    "to", "of", "in", "for", "on", "with", "at", "by", "from", "up", "about",
    "into", "over", "after", "and", "but", "or", "if", "as", "that", "which",
    "what", "when", "where", "who", "whom", "this", "these", "those", "such",
    "it", "its", "itself", "they", "their", "them", "we", "our", "us",
    "he", "his", "him", "she", "her", "hers", "you", "your", "yours",
    "i", "me", "my", "mine", "myself",
    "not", "no", "nor", "so", "than", "too", "very", "just", "only",
    "also", "even", "still", "already", "always", "never", "ever", "often",
    "any", "all", "each", "every", "both", "few", "more", "most", "other",
    "some", "one", "two", "first", "new", "now", "way", "well", "then",
    "usually", "especially", "particularly", "generally", "typically",
    "sometimes", "followed", "something", "someone", "anything", "anyone">>

StopWordsFlag == "--stop-words="

IsStopWordsArg(arg) == startsWith(arg, StopWordsFlag)

IsStopWordLine(line) == Len(line) > 0 /\ ~startsWith(line, "#")

RECURSIVE mapTrimLower(_)
mapTrimLower(q) ==
  IF q = <<>> THEN <<>> ELSE <<toLowerCase(trim(Head(q)))>> \o mapTrimLower(Tail(q))

\* parseStopWordsConfig(): the stop-word set the command line selects; the
\* named file is stopFile, which exists
parseStopWordsConfig(args, file) ==
  IF "--use-default-stop-words" \in Range(args)
    THEN Range(DEFAULT_STOP_WORDS)
  ELSE IF filter(IsStopWordsArg, args) # <<>>
    THEN Range(filter(IsStopWordLine, mapTrimLower(file)))
  ELSE {}

(***************************************************************************)
(* extractContentWords                                                     *)
(***************************************************************************)
\* a length filter that keeps words of two characters
LongerThanOne(w) == Len(w) > 1

LongerThanTwo(w) == Len(w) > 2

\* line 141 with the test of the stop words inverted
OnlyStopWord(w) == w \in STOP_WORDS

\* line 141: !STOP_WORDS.has(w)
NotStopWord(w) == w \notin STOP_WORDS

\* extractContentWords without the de-duplication of line 142
extractContentWordsNoDedup(definition) ==
  filter(NotStopWord,
    filter(LongerThanTwo,
      splitWs(replaceNonAlpha(toLowerCase(definition)), 1, "")))

extractContentWords(definition) ==
  uniq(filter(NotStopWord,
         filter(LongerThanTwo,
           splitWs(replaceNonAlpha(toLowerCase(definition)), 1, ""))), <<>>)

(***************************************************************************)
(* decodeXmlEntities and the regular expressions of parseWordNet.  A match *)
(* result is <<>> (null) or <<captured text>>.                             *)
(***************************************************************************)
\* .replace(/pat/g, rep) for a literal pat: left to right, without overlap
RECURSIVE replaceFrom(_, _, _, _)
replaceFrom(s, i, pat, rep) ==
  IF i > Len(s) THEN ""
  ELSE IF StartsAt(s, i, pat) THEN rep \o replaceFrom(s, i + Len(pat), pat, rep)
  ELSE Ch(s, i) \o replaceFrom(s, i + 1, pat, rep)

replaceAll(s, pat, rep) == IF includes(s, pat) THEN replaceFrom(s, 1, pat, rep) ELSE s

\* the five replacements with &amp; decoded first
decodeAmpFirst(str) ==
  replaceAll(replaceAll(replaceAll(replaceAll(replaceAll(str,
    "&amp;", "&"), "&apos;", "'"), "&quot;", "\""), "&lt;", "<"), "&gt;", ">")

decodeXmlEntities(str) ==
  replaceAll(replaceAll(replaceAll(replaceAll(replaceAll(str,
    "&apos;", "'"), "&quot;", "\""), "&lt;", "<"), "&gt;", ">"), "&amp;", "&")

\* the first position >= i of s that holds c, Len(s) + 1 if there is none
RECURSIVE indexOfChar(_, _, _)
indexOfChar(s, c, i) ==
  IF i > Len(s) \/ Ch(s, i) = c THEN i ELSE indexOfChar(s, c, i + 1)

\* the first position >= i of s that holds no white space
RECURSIVE skipSpaces(_, _)
skipSpaces(s, i) ==
  IF i > Len(s) \/ ~IsSpace(Ch(s, i)) THEN i ELSE skipSpaces(s, i + 1)

MinOf(S) == CHOOSE m \in S : \A n \in S : m <= n

\* ([^"]+)" at position i: one character or more, up to the next quote
QuotedAt(s, i) ==
  LET q == indexOfChar(s, "\"", i)
  IN  IF q > i /\ q <= Len(s) THEN <<SubSeq(s, i, q - 1)>> ELSE <<>>

\* s.match(/name="([^"]+)"/): the leftmost match
attrMatch(s, name) ==
  LET lit == name \o "=\""
      at  == {i \in 1..Len(s) : StartsAt(s, i, lit) /\ QuotedAt(s, i + Len(lit)) # <<>>}
  IN  IF at = {} THEN <<>> ELSE QuotedAt(s, MinOf(at) + Len(lit))

\* /<LexicalEntry\s+id="([^"]+)"/
entryMatch(line) ==
  LET lit == "<LexicalEntry"
      at  == {i \in 1..Len(line) :
                /\ StartsAt(line, i, lit)
                /\ IsSpace(Ch(line, i + Len(lit)))
                /\ LET j == skipSpaces(line, i + Len(lit))
                   IN  StartsAt(line, j, "id=\"") /\ QuotedAt(line, j + 4) # <<>>}
  IN  at # {}

\* <tag\s+([^>]+) at position i, followed by > when closed is asked: \s+
\* takes the whole run of white space unless [^>]+ would then be empty, in
\* which case it gives back the last white-space character
TagAttrsAt(line, tag, closed, i) ==
  LET p == i + Len(tag)
      q == skipSpaces(line, p)
      b == IF q <= Len(line) /\ Ch(line, q) # ">" THEN q ELSE q - 1
      e == indexOfChar(line, ">", b)
  IN  IF StartsAt(line, i, tag) /\ q > p /\ b > p /\ (closed => e <= Len(line))
        THEN <<SubSeq(line, b, e - 1)>>
        ELSE <<>>

\* line.match(/<Lemma\s+([^>]+)/), /<Sense\s+([^>]+)/, /<Synset\s+([^>]+)>/
tagMatch(line, tag, closed) ==
  LET at == {i \in 1..Len(line) : TagAttrsAt(line, tag, closed, i) # <<>>}
  IN  IF at = {} THEN <<>> ELSE TagAttrsAt(line, tag, closed, MinOf(at))

\* <Definition[^>]*>([^<]*) at position i, followed by </Definition> when
\* closed is asked
DefinitionAt(line, closed, i) ==
  LET g == indexOfChar(line, ">", i + Len("<Definition"))
      h == indexOfChar(line, "<", g + 1)
  IN  IF /\ StartsAt(line, i, "<Definition")
         /\ g <= Len(line)
         /\ (closed => StartsAt(line, h, "</Definition>"))
        THEN <<SubSeq(line, g + 1, h - 1)>>
        ELSE <<>>

\* line.match(/<Definition[^>]*>([^<]*)<\/Definition>/) and
\* line.match(/<Definition[^>]*>([^<]*)/)
definitionMatch(line, closed) ==
  LET at == {i \in 1..Len(line) : DefinitionAt(line, closed, i) # <<>>}
  IN  IF at = {} THEN <<>> ELSE DefinitionAt(line, closed, MinOf(at))

\* line.match(/([^<]*)<\/Definition>/): the leftmost start from which no <
\* comes before a closing marker
endMatch(line) ==
  LET at == {h \in 1..Len(line) : StartsAt(line, h, "</Definition>")}
      H  == MinOf(at)
      lt == {k \in 1..(H - 1) : Ch(line, k) = "<"}
      b  == IF lt = {} THEN 1 ELSE (CHOOSE m \in lt : \A n \in lt : n <= m) + 1
  IN  IF at = {} THEN <<>> ELSE <<SubSeq(line, b, H - 1)>>

(***************************************************************************)
(* parseWordNet, lines 173-274: the body of the loop over the lines        *)
(***************************************************************************)
\* lines 176-180
EntryAfterOpen(line, entry) ==
  IF entryMatch(line) THEN <<[lemmas |-> <<>>, synsets |-> <<>>]>> ELSE entry

\* lines 182-190
EntryAfterLemma(line, entry) ==
  LET lemmaMatch == tagMatch(line, "<Lemma", FALSE)
      formMatch  == attrMatch(lemmaMatch[1], "writtenForm")
  IN  IF lemmaMatch # <<>> /\ entry # <<>> /\ formMatch # <<>>
        THEN <<[entry[1] EXCEPT
                  !.lemmas = Append(@, toLowerCase(decodeXmlEntities(formMatch[1])))]>>
        ELSE entry

\* lines 192-200
EntryAfterSense(line, entry) ==
  LET senseMatch  == tagMatch(line, "<Sense", FALSE)
      synsetMatch == attrMatch(senseMatch[1], "synset")
  IN  IF senseMatch # <<>> /\ entry # <<>> /\ synsetMatch # <<>>
        THEN <<[entry[1] EXCEPT !.synsets = Append(@, synsetMatch[1])]>>
        ELSE entry

\* lines 208-210
RECURSIVE AddLemmas(_, _)
AddLemmas(set, lemmas) ==
  IF lemmas = <<>> THEN set ELSE AddLemmas(SetAdd(set, Head(lemmas)), Tail(lemmas))

\* MergeEntry with the lemma set of a concept set replaced, not extended
RECURSIVE MergeEntryOverwrite(_, _, _)
MergeEntryOverwrite(s2l, synsets, lemmas) ==
  IF synsets = <<>> THEN s2l
  ELSE MergeEntryOverwrite(MapSet(s2l, Head(synsets), AddLemmas(<<>>, lemmas)),
                           Tail(synsets), lemmas)

\* lines 204-211
RECURSIVE MergeEntry(_, _, _)
MergeEntry(s2l, synsets, lemmas) ==
  IF synsets = <<>> THEN s2l
  ELSE LET synsetId == Head(synsets)
           had == IF MapHas(s2l, synsetId) THEN MapGet(s2l, synsetId) ELSE <<>>
       IN  MergeEntry(MapSet(s2l, synsetId, AddLemmas(had, lemmas)),
                      Tail(synsets), lemmas)

\* lines 215-228
SynsetAfterOpen(line, synset) ==
  LET synsetMatch == tagMatch(line, "<Synset", TRUE)
      idMatch  == attrMatch(synsetMatch[1], "id")
      posMatch == attrMatch(synsetMatch[1], "partOfSpeech")
  IN  IF synsetMatch # <<>> /\ idMatch # <<>>
        THEN <<[id |-> idMatch[1],
                partOfSpeech |-> IF posMatch # <<>> THEN posMatch[1] ELSE "",
                definitions |-> <<>>]>>
        ELSE synset

\* lines 238-239 and 252-253 with the definition pushed twice
PushDefinitionTwice(synset, def) ==
  IF synset # <<>>
    THEN <<[synset[1] EXCEPT !.definitions = Append(Append(@, def), def)]>>
    ELSE synset

\* lines 238-239 and 252-253
PushDefinition(synset, def) ==
  IF synset # <<>>
    THEN <<[synset[1] EXCEPT !.definitions = Append(@, def)]>>
    ELSE synset

\* lines 230-258: the definition state after the line, as the record
\* [inDefinition, definitionText, synset]
AfterDefinition(line, synset) ==
  LET defMatch   == definitionMatch(line, TRUE)
      startMatch == definitionMatch(line, FALSE)
      endM       == endMatch(line)
  IN  IF includes(line, "<Definition")
        THEN IF defMatch # <<>>
               THEN [inDefinition |-> FALSE,
                     definitionText |-> decodeXmlEntities(defMatch[1]),
                     synset |-> PushDefinition(synset, decodeXmlEntities(defMatch[1]))]
               ELSE [inDefinition |-> TRUE,
                     definitionText |-> IF startMatch # <<>>
                                          THEN decodeXmlEntities(startMatch[1])
                                          ELSE "",
                     synset |-> synset]
      ELSE IF inDefinition
        THEN IF endM # <<>>
               THEN [inDefinition |-> FALSE,
                     definitionText |-> definitionText \o decodeXmlEntities(endM[1]),
                     synset |-> PushDefinition(synset,
                                  definitionText \o decodeXmlEntities(endM[1]))]
               ELSE [inDefinition |-> TRUE,
                     definitionText |-> definitionText \o decodeXmlEntities(line),
                     synset |-> synset]
      ELSE [inDefinition |-> inDefinition,
            definitionText |-> definitionText,
            synset |-> synset]

\* lines 262-267 with every closed concept set stored
StoreSynsetAlways(sd, synset) ==
  MapSet(sd, synset.id,
         [definitions |-> synset.definitions, partOfSpeech |-> synset.partOfSpeech])

\* lines 262-267 with a concept set stored only when an entry read earlier
\* refers to it
StoreSynsetIfReferenced(sd, synset) ==
  IF Len(synset.definitions) > 0 /\ MapHas(synsetToLemmas, synset.id)
    THEN MapSet(sd, synset.id,
                [definitions |-> synset.definitions,
                 partOfSpeech |-> synset.partOfSpeech])
    ELSE sd

\* lines 262-267
StoreSynset(sd, synset) ==
  IF Len(synset.definitions) > 0
    THEN MapSet(sd, synset.id,
                [definitions |-> synset.definitions,
                 partOfSpeech |-> synset.partOfSpeech])
    ELSE sd

\* for await (const line of rl): one iteration
ParseLine ==
  /\ pc = "parse"
  /\ lineCount < Len(fileLines)
  /\ LET line   == fileLines[lineCount + 1]
         entry  == EntryAfterSense(line,
                     EntryAfterLemma(line, EntryAfterOpen(line, currentEntry)))
         endEntry == includes(line, "</LexicalEntry>") /\ entry # <<>>
         def    == AfterDefinition(line, SynsetAfterOpen(line, currentSynset))
         endSynset == includes(line, "</Synset>") /\ def.synset # <<>>
     IN  /\ lineCount' = lineCount + 1
         /\ synsetToLemmas' =
              IF endEntry
                THEN MergeEntry(synsetToLemmas, entry[1].synsets, entry[1].lemmas)
                ELSE synsetToLemmas
         /\ currentEntry' = IF endEntry THEN <<>> ELSE entry
         /\ inDefinition' = def.inDefinition
         /\ definitionText' = def.definitionText
         /\ synsetDefinitions' =
              IF endSynset
                THEN StoreSynset(synsetDefinitions, def.synset[1])
                ELSE synsetDefinitions
         /\ currentSynset' = IF endSynset THEN <<>> ELSE def.synset
  /\ UnchangedInput /\ UnchangedRunner /\ UnchangedTables /\ UnchangedSCC
  /\ UnchangedScoring
  /\ UnchangedHarness
  /\ UNCHANGED <<pc, graph>>

\* an I/O error while the file is read, with the exit status of a run that
\* succeeded
ReadErrorExitZero ==
  /\ pc = "parse"
  /\ lineCount < Len(fileLines)
  /\ pc' = "exit"
  /\ exitCode' = <<0>>
  /\ UnchangedInput /\ UnchangedRunner /\ UnchangedParser /\ UnchangedTables
  /\ UnchangedSCC
  /\ UnchangedHarness
  /\ UNCHANGED <<graph, wordToSCC, primes, outputFile>>

\* an I/O error while the file is read: the rejection reaches main().catch
\* (lines 716-722)
ReadError ==
  /\ pc = "parse"
  /\ lineCount < Len(fileLines)
  /\ pc' = "exit"
  /\ exitCode' = <<1>>
  /\ UnchangedInput /\ UnchangedRunner /\ UnchangedParser /\ UnchangedTables
  /\ UnchangedSCC
  /\ UnchangedHarness
  /\ UNCHANGED <<graph, wordToSCC, primes, outputFile>>

(***************************************************************************)
(* parseWordNet, lines 279-324: phase 2.  T is the record of the three     *)
(* tables under construction.                                              *)
(***************************************************************************)
\* lines 289-303: the loop over the lemmas of the concept set
RECURSIVE IndexLemmas(_, _, _, _)
IndexLemmas(T, lemmas, entry, contentWords) ==
  IF lemmas = <<>> THEN T
  ELSE LET lemma == Head(lemmas)
           had == IF MapHas(T.lemmaToDefinitions, lemma)
                    THEN MapGet(T.lemmaToDefinitions, lemma) ELSE <<>>
       IN  IndexLemmas(
             [T EXCEPT !.lemmaToDefinitions = MapSet(@, lemma, Append(had, entry)),
                       !.selfReferences = IF lemma \in Range(contentWords)
                                            THEN SetAdd(@, lemma) ELSE @],
             Tail(lemmas), entry, contentWords)

\* lines 306-308
RECURSIVE CountWords(_, _)
CountWords(counts, words) ==
  IF words = <<>> THEN counts
  ELSE LET word == Head(words)
           old == IF MapHas(counts, word) THEN MapGet(counts, word) ELSE 0
       IN  CountWords(MapSet(counts, word, old + 1), Tail(words))

\* lines 285-309: the loop over the definitions of the concept set
RECURSIVE IndexDefinitions(_, _, _, _, _)
IndexDefinitions(T, defs, lemmas, partOfSpeech, synsetId) ==
  IF defs = <<>> THEN T
  ELSE LET definition == Head(defs)
           contentWords == extractContentWords(definition)
           T1 == IndexLemmas(T, lemmas,
                   [definition |-> definition, partOfSpeech |-> partOfSpeech,
                    synsetId |-> synsetId], contentWords)
           T2 == [T1 EXCEPT !.definitionWordCounts = CountWords(@, contentWords)]
       IN  IndexDefinitions(T2, Tail(defs), lemmas, partOfSpeech, synsetId)

\* lines 282-310: the loop over synsetDefinitions
RECURSIVE IndexSynsets(_, _)
IndexSynsets(T, ids) ==
  IF ids = <<>> THEN T
  ELSE LET synsetId == Head(ids)
           data == MapGet(synsetDefinitions, synsetId)
           lemmas == IF MapHas(synsetToLemmas, synsetId)
                       THEN MapGet(synsetToLemmas, synsetId) ELSE <<>>
       IN  IndexSynsets(
             IndexDefinitions(T, data.definitions, lemmas, data.partOfSpeech, synsetId),
             Tail(ids))

\* the end of the stream: phase 2 runs to the return of parseWordNet
ParseWordNet_Phase2 ==
  /\ pc = "parse"
  /\ lineCount = Len(fileLines)
  /\ LET T == IndexSynsets([lemmaToDefinitions |-> EmptyMap,
                            definitionWordCounts |-> EmptyMap,
                            selfReferences |-> <<>>], synsetDefinitions.keys)
     IN  /\ lemmaToDefinitions' = T.lemmaToDefinitions
         /\ definitionWordCounts' = T.definitionWordCounts
         /\ selfReferences' = T.selfReferences
  /\ synsetToLemmas' = EmptyMap
  /\ pc' = "buildGraph"
  /\ UNCHANGED <<lineCount, currentEntry, currentSynset, inDefinition,
                 definitionText, synsetDefinitions>>
  /\ UnchangedInput /\ UnchangedRunner /\ UnchangedSCC /\ UnchangedScoring
  /\ UnchangedHarness
  /\ UNCHANGED graph

(***************************************************************************)
(* buildDependencyGraph                                                    *)
(***************************************************************************)
\* AddDependencies without the test of line 341
RECURSIVE AddAllWords(_, _, _)
AddAllWords(dependencies, words, l2d) ==
  IF words = <<>> THEN dependencies
  ELSE AddAllWords(SetAdd(dependencies, Head(words)), Tail(words), l2d)

\* lines 340-344
RECURSIVE AddDependencies(_, _, _)
AddDependencies(dependencies, words, l2d) ==
  IF words = <<>> THEN dependencies
  ELSE AddDependencies(IF MapHas(l2d, Head(words))
                         THEN SetAdd(dependencies, Head(words))
                         ELSE dependencies,
                       Tail(words), l2d)

\* lines 338-345
RECURSIVE DependenciesOf(_, _, _)
DependenciesOf(dependencies, defs, l2d) ==
  IF defs = <<>> THEN dependencies
  ELSE DependenciesOf(
         AddDependencies(dependencies, extractContentWords(Head(defs).definition), l2d),
         Tail(defs), l2d)

\* lines 335-348
RECURSIVE GraphOfLemmas(_, _, _)
GraphOfLemmas(g, lemmas, l2d) ==
  IF lemmas = <<>> THEN g
  ELSE GraphOfLemmas(
         MapSet(g, Head(lemmas), DependenciesOf(<<>>, MapGet(l2d, Head(lemmas)), l2d)),
         Tail(lemmas), l2d)

buildDependencyGraph(l2d) == GraphOfLemmas(EmptyMap, l2d.keys, l2d)

\* line 622
Main_BuildGraph ==
  /\ pc = "buildGraph"
  /\ graph' = buildDependencyGraph(lemmaToDefinitions)
  /\ pc' = "findSCCs"
  /\ UnchangedInput /\ UnchangedRunner /\ UnchangedParser /\ UnchangedTables
  /\ UnchangedSCC
  /\ UnchangedScoring /\ UnchangedHarness

(***************************************************************************)
(* findSCCs: Tarjan's algorithm.  strongConnect is a recursive function;   *)
(* callStack holds one frame per activation that has not returned, with    *)
(* the node v of the activation and the position i of its loop over the    *)
(* neighbours of v.                                                        *)
(***************************************************************************)
\* graph.get(v) || new Set()
Neighbors(v) == IF MapHas(graph, v) THEN MapGet(graph, v) ELSE <<>>

\* lines 375-379: the entry of strongConnect(v), a new activation
StrongConnectEnter(v) ==
  /\ indices' = FnSet(indices, v, index)
  /\ lowlinks' = FnSet(lowlinks, v, index)
  /\ index' = index + 1
  /\ stack' = Append(stack, v)
  /\ onStack' = onStack \cup {v}
  /\ callStack' = Append(callStack, [v |-> v, i |-> 1])

\* line 385: the low-link of v after the recursive call on w has returned
LowlinkAfterCall(v, w) == Min(lowlinks[v], lowlinks[w])

\* line 387 without the update
LowlinkOnStackNoUpdate(v, w) == lowlinks[v]

\* line 387: the low-link of v on meeting w, which is on the stack
LowlinkOnStack(v, w) == Min(lowlinks[v], indices[w])

\* line 392: v is the root of a component
IsRoot(v) == lowlinks[v] = indices[v]

\* lines 393-399 with a single pop
PoppedOnlyTop(v) == <<stack[Len(stack)]>>

\* lines 393-399: the members popped off the stack down to v, in pop order
PoppedSCC(v) ==
  LET p == CHOOSE k \in 1..Len(stack) : stack[k] = v
  IN  reverse(SubSeq(stack, p, Len(stack)))

\* lines 406-410: the loop over graph.keys(), between two activations
FindSCCs_Loop ==
  /\ pc = "findSCCs"
  /\ callStack = <<>>
  /\ processed < Len(graph.keys)
  /\ LET v == graph.keys[processed + 1]
     IN  IF v \notin DOMAIN indices
           THEN StrongConnectEnter(v) /\ UNCHANGED <<sccs, processed>>
           ELSE /\ processed' = processed + 1
                /\ UNCHANGED <<indices, lowlinks, onStack, stack, sccs, index, callStack>>
  /\ UnchangedOutsideSCC

\* lines 382-389: one iteration of the loop over the neighbours of v
StrongConnect_Neighbor ==
  /\ pc = "findSCCs"
  /\ callStack # <<>>
  /\ LET top == callStack[Len(callStack)]
         v   == top.v
     IN  /\ top.i <= Len(Neighbors(v))
         /\ LET w == Neighbors(v)[top.i]
                advance == [callStack EXCEPT ![Len(callStack)].i = top.i + 1]
            IN  IF w \notin DOMAIN indices
                  THEN StrongConnectEnter(w) /\ UNCHANGED <<sccs, processed>>
                ELSE IF w \in onStack
                  THEN /\ lowlinks' = FnSet(lowlinks, v, LowlinkOnStack(v, w))
                       /\ callStack' = advance
                       /\ UNCHANGED <<indices, onStack, stack, sccs, index, processed>>
                ELSE /\ callStack' = advance
                     /\ UNCHANGED <<indices, lowlinks, onStack, stack, sccs, index, processed>>
  /\ UnchangedOutsideSCC

\* lines 391-401 and the return: the component is popped if v is a root, the
\* activation ends, and the caller (line 385, or line 410) goes on
StrongConnect_Return ==
  /\ pc = "findSCCs"
  /\ callStack # <<>>
  /\ LET top == callStack[Len(callStack)]
         v   == top.v
         d   == Len(callStack)
     IN  /\ top.i > Len(Neighbors(v))
         /\ IF IsRoot(v)
              THEN /\ sccs' = Append(sccs, PoppedSCC(v))
                   /\ stack' = SubSeq(stack, 1, Len(stack) - Len(PoppedSCC(v)))
                   /\ onStack' = onStack \ Range(PoppedSCC(v))
              ELSE UNCHANGED <<sccs, stack, onStack>>
         /\ IF d > 1
              THEN /\ lowlinks' = FnSet(lowlinks, callStack[d - 1].v,
                                        LowlinkAfterCall(callStack[d - 1].v, v))
                   /\ callStack' = [SubSeq(callStack, 1, d - 1)
                                      EXCEPT ![d - 1].i = callStack[d - 1].i + 1]
                   /\ UNCHANGED processed
              ELSE /\ callStack' = <<>>
                   /\ processed' = processed + 1
                   /\ UNCHANGED lowlinks
  /\ UNCHANGED <<indices, index>>
  /\ UnchangedOutsideSCC

\* line 444: return sccs
FindSCCs_Return ==
  /\ pc = "findSCCs"
  /\ callStack = <<>>
  /\ processed = Len(graph.keys)
  /\ pc' = "wordToSCC"
  /\ UnchangedInput /\ UnchangedRunner /\ UnchangedParser /\ UnchangedTables
  /\ UnchangedSCC
  /\ UnchangedScoring /\ UnchangedHarness
  /\ UNCHANGED graph

(***************************************************************************)
(* calculatePrimeScore and main, lines 627-714.  A score is held in        *)
(* millionths of a point; Log10Micro[n] is log10(n) in millionths.         *)
(***************************************************************************)
Log10Micro ==
  <<0, 301030, 477121, 602060, 698970, 778151, 845098, 903090, 954243,
    1000000, 1041393, 1079181, 1113943, 1146128, 1176091, 1204120, 1230449,
    1255273, 1278754, 1301030, 1322219, 1342423, 1361728, 1380211>>
  @@ (50 :> 1698970) @@ (99 :> 1995635) @@ (100 :> 2000000)
  @@ (101 :> 2004321) @@ (1000 :> 3000000)

Points(n) == n * 1000000

\* lines 470-472 without Math.min
SccSizeScoreUncapped(sccSize) ==
  IF sccSize > 1 THEN Log10Micro[sccSize] * 15 ELSE 0

\* the contribution of the SCC size, lines 470-472
SccSizeScore(sccSize) ==
  IF sccSize > 1 THEN Min(Log10Micro[sccSize] * 15, Points(30)) ELSE 0

\* the contribution of the reference count, lines 485-487; an undefined
\* count is passed as 0
RefCountScore(refCount) ==
  IF refCount # 0 THEN Log10Micro[refCount] * 8 ELSE 0

\* the contribution of the word length, lines 490-494
BrevityScore(word) ==
  IF Len(word) <= 4 THEN Points(10)
  ELSE IF Len(word) <= 6 THEN Points(5)
  ELSE 0

calculatePrimeScore(word, sccSize, hasSelfLoop, refCount, isSelfRef, isInCycle) ==
    (IF isInCycle THEN Points(50) ELSE 0)
  + SccSizeScore(sccSize)
  + (IF hasSelfLoop THEN Points(30) ELSE 0)
  + (IF isSelfRef THEN Points(20) ELSE 0)
  + RefCountScore(refCount)
  + BrevityScore(word)

\* lines 630-634
RECURSIVE SetWords(_, _, _)
SetWords(w2s, words, scc) ==
  IF words = <<>> THEN w2s ELSE SetWords(MapSet(w2s, Head(words), scc), Tail(words), scc)

RECURSIVE BuildWordToSCC(_, _)
BuildWordToSCC(w2s, components) ==
  IF components = <<>> THEN w2s
  ELSE BuildWordToSCC(SetWords(w2s, Head(components), Head(components)), Tail(components))

\* line 641 with the fallback `new Set()` in place of the edge set of the word
HasSelfLoopOfNoEdges(word) == word \in {}

\* line 641
HasSelfLoop(word) == word \in Range(Neighbors(word))

\* line 642 without the self-loop
IsInCycleSizeOnly(word, scc) == Len(scc) > 1

\* line 642
IsInCycle(word, scc) == Len(scc) > 1 \/ HasSelfLoop(word)

\* lines 647-668
PrimeRecord(word, scc) ==
  LET defs == IF MapHas(lemmaToDefinitions, word)
                THEN MapGet(lemmaToDefinitions, word) ELSE <<>>
      refCount == IF MapHas(definitionWordCounts, word)
                    THEN MapGet(definitionWordCounts, word) ELSE 0
  IN  [word |-> word,
       primeScore |-> calculatePrimeScore(word, Len(scc), HasSelfLoop(word), refCount,
                                          word \in Range(selfReferences),
                                          IsInCycle(word, scc)),
       sccSize |-> Len(scc),
       sccSample |-> SubSeq(scc, 1, Min(Len(scc), 10)),
       hasSelfLoop |-> HasSelfLoop(word),
       isInCycle |-> IsInCycle(word, scc),
       referenceCount |-> refCount,
       isSelfReference |-> word \in Range(selfReferences),
       definition |-> IF defs # <<>> THEN <<defs[1].definition>> ELSE <<>>,
       partOfSpeech |-> IF defs # <<>> THEN <<defs[1].partOfSpeech>> ELSE <<>>]

\* lines 639-671 without the test of line 645
RECURSIVE CollectPrimesAll(_, _, _)
CollectPrimesAll(list, words, w2s) ==
  IF words = <<>> THEN list
  ELSE CollectPrimesAll(Append(list, PrimeRecord(Head(words), MapGet(w2s, Head(words)))),
                        Tail(words), w2s)

\* lines 639-671: the loop over wordToSCC
RECURSIVE CollectPrimes(_, _, _)
CollectPrimes(list, words, w2s) ==
  IF words = <<>> THEN list
  ELSE LET word == Head(words)
           scc  == MapGet(w2s, word)
       IN  CollectPrimes(IF IsInCycle(word, scc)
                           THEN Append(list, PrimeRecord(word, scc))
                           ELSE list,
                         Tail(words), w2s)

\* line 674 with a record placed before the records of equal score
RECURSIVE InsertBeforeEqual(_, _)
InsertBeforeEqual(sorted, p) ==
  IF sorted = <<>> THEN <<p>>
  ELSE IF Head(sorted).primeScore > p.primeScore
    THEN <<Head(sorted)>> \o InsertBeforeEqual(Tail(sorted), p)
  ELSE <<p>> \o sorted

\* line 674: Array.prototype.sort with (a, b) => b.primeScore - a.primeScore;
\* the sort is stable
RECURSIVE InsertByScore(_, _)
InsertByScore(sorted, p) ==
  IF sorted = <<>> THEN <<p>>
  ELSE IF Head(sorted).primeScore >= p.primeScore
    THEN <<Head(sorted)>> \o InsertByScore(Tail(sorted), p)
  ELSE <<p>> \o sorted

RECURSIVE sortByScore(_, _)
sortByScore(sorted, list) ==
  IF list = <<>> THEN sorted
  ELSE sortByScore(InsertByScore(sorted, Head(list)), Tail(list))

\* lines 611-615
Main_Start ==
  /\ pc = "start"
  /\ IF fileExists
       THEN pc' = "parse" /\ UNCHANGED exitCode
       ELSE pc' = "exit" /\ exitCode' = <<1>>
  /\ UnchangedInput /\ UnchangedRunner /\ UnchangedParser /\ UnchangedTables
  /\ UnchangedSCC
  /\ UnchangedHarness
  /\ UNCHANGED <<graph, wordToSCC, primes, outputFile>>

\* lines 627-674
Main_BuildPrimes ==
  /\ pc = "wordToSCC"
  /\ wordToSCC' = BuildWordToSCC(EmptyMap, sccs)
  /\ primes' = sortByScore(<<>>, CollectPrimes(<<>>, wordToSCC'.keys, wordToSCC'))
  /\ pc' = "write"
  /\ UnchangedInput /\ UnchangedRunner /\ UnchangedParser /\ UnchangedTables
  /\ UnchangedSCC
  /\ UnchangedHarness
  /\ UNCHANGED <<graph, outputFile, exitCode>>

\* lines 707-713: the records are written and main returns
Main_Write ==
  /\ pc = "write"
  /\ outputFile' = <<primes>>
  /\ exitCode' = <<0>>
  /\ pc' = "done"
  /\ UnchangedInput /\ UnchangedRunner /\ UnchangedParser /\ UnchangedTables
  /\ UnchangedSCC
  /\ UnchangedHarness
  /\ UNCHANGED <<graph, wordToSCC, primes>>

\* the SCC assignment as sets of words, and the score of every ranked word
Outcome ==
  [assignment |-> {<<w, Range(MapGet(wordToSCC, w))>> : w \in Range(wordToSCC.keys)},
   scores |-> {<<primes[i].word, primes[i].primeScore>> : i \in 1..Len(primes)}]

\* lines 365-372 with the visited map of an earlier call
FindSCCsLocalsKept ==
  [index |-> 0, stack |-> <<>>, indices |-> indices, lowlinks |-> EmptyFn,
   onStack |-> {}, sccs |-> <<>>]

\* lines 365-372: the locals of a call of findSCCs
FindSCCsLocals ==
  [index |-> 0, stack |-> <<>>, indices |-> EmptyFn, lowlinks |-> EmptyFn,
   onStack |-> {}, sccs |-> <<>>]

\* the process has ended and the script is started again, with the same
\* command line and the same files: main runs from line 607 in a new
\* process, whose module constants and locals are new
Main_Rerun ==
  /\ pc = "done"
  /\ firstRun = <<>>
  /\ firstRun' = <<Outcome>>
  /\ pc' = "start"
  /\ lineCount' = 0 /\ currentEntry' = <<>> /\ currentSynset' = <<>>
  /\ inDefinition' = FALSE /\ definitionText' = ""
  /\ synsetToLemmas' = EmptyMap /\ synsetDefinitions' = EmptyMap
  /\ lemmaToDefinitions' = EmptyMap /\ definitionWordCounts' = EmptyMap
  /\ selfReferences' = <<>>
  /\ graph' = EmptyMap
  /\ index' = FindSCCsLocals.index /\ stack' = FindSCCsLocals.stack
  /\ indices' = FindSCCsLocals.indices /\ lowlinks' = FindSCCsLocals.lowlinks
  /\ onStack' = FindSCCsLocals.onStack /\ sccs' = FindSCCsLocals.sccs
  /\ callStack' = <<>> /\ processed' = 0
  /\ wordToSCC' = EmptyMap /\ primes' = <<>>
  /\ exitCode' = <<>>
  /\ STOP_WORDS' = parseStopWordsConfig(argv, stopFile)
  /\ UNCHANGED <<argv, stopFile, fileExists, fileLines, corpus, outputFile>>
  /\ UNCHANGED <<procs, promises, results>>
  /\ UnchangedHarness

(***************************************************************************)
(* The command lines of the model                                          *)
(***************************************************************************)
RECURSIVE concat(_)
concat(q) == IF q = <<>> THEN "" ELSE Head(q) \o concat(Tail(q))

ArgvInputs ==
  {<<>>, <<"--use-default-stop-words">>, <<"--stop-words=stop.txt">>}

StopFileLines == <<"# custom stop words", "That", "", "  THE ", "thing">>

InitConfig(a) ==
  /\ argv = a
  /\ stopFile = StopFileLines
  /\ STOP_WORDS = parseStopWordsConfig(a, StopFileLines)

(***************************************************************************)
(* The corpora of the model.  A corpus is a sequence of blocks; a block    *)
(* holds lexical entries and the concept sets they refer to.  The file     *)
(* lists the entries of all blocks, then their concept sets, one tag per   *)
(* line as in the WordNet export.                                          *)
(***************************************************************************)
Lem(form, pos) == [writtenForm |-> form, partOfSpeech |-> pos]

Entry(id, lemmas, synsets) == [id |-> id, lemmas |-> lemmas, synsets |-> synsets]

Synset(id, pos, defs) == [id |-> id, partOfSpeech |-> pos, definitions |-> defs]

Block(entries, synsets) == [entries |-> entries, synsets |-> synsets]

BlockLibrary ==
  << Block(<<Entry("e-entity", <<Lem("entity", "n")>>, <<"s-entity">>)>>,
           <<Synset("s-entity", "n", <<"a thing">>)>>),
     Block(<<Entry("e-thing", <<Lem("thing", "n")>>, <<"s-thing">>)>>,
           <<Synset("s-thing", "n", <<"an entity">>)>>),
     Block(<<Entry("e-body", <<Lem("body", "n")>>, <<"s-body">>)>>,
           <<Synset("s-body", "n", <<"the physical structure of an entity">>)>>),
     Block(<<Entry("e-time", <<Lem("Time", "n")>>, <<"s-time">>)>>,
           <<Synset("s-time", "n", <<"a time when something happens">>)>>),
     Block(<<Entry("e-exist", <<Lem("exist", "v")>>, <<"s-exist">>)>>,
           <<Synset("s-exist", "v", <<"to exist">>)>>),
     Block(<<Entry("e-go", <<Lem("go", "v")>>, <<"s-go">>)>>,
           <<Synset("s-go", "v", <<"to go">>)>>),
     Block(<<Entry("e-thing-n", <<Lem("thing", "n")>>, <<"s-object">>),
             Entry("e-object", <<Lem("object", "n")>>, <<"s-object", "s-body">>),
             Entry("e-thing-v", <<Lem("Thing", "v")>>, <<"s-object">>)>>,
           <<Synset("s-object", "n", <<"A Thing that is a Thing", "an entity">>)>>),
     Block(<<Entry("e-being", <<Lem("being", "n"), Lem("existence", "n")>>,
                   <<"s-being", "s-missing">>)>>,
           <<Synset("s-being", "n", <<"the state of being a thing">>),
             Synset("s-orphan", "n", <<"a thing of the body">>)>>) >>

MaxBlocks == 3

\* the blocks of the library at the positions of P, in ascending order
RECURSIVE Pick(_, _)
Pick(P, i) ==
  IF i > Len(BlockLibrary) THEN <<>>
  ELSE (IF i \in P THEN <<BlockLibrary[i]>> ELSE <<>>) \o Pick(P, i + 1)

BlockChoices ==
  UNION {{Pick(P, 1), reverse(Pick(P, 1))} :
           P \in {Q \in SUBSET (1..Len(BlockLibrary)) : Cardinality(Q) <= MaxBlocks}}

RECURSIVE flatten(_)
flatten(q) == IF q = <<>> THEN <<>> ELSE Head(q) \o flatten(Tail(q))

RECURSIVE mapSeq(_, _)
mapSeq(F(_), q) == IF q = <<>> THEN <<>> ELSE <<F(Head(q))>> \o mapSeq(F, Tail(q))

EntriesOf(blocks) == flatten(mapSeq(LAMBDA b : b.entries, blocks))

SynsetsOf(blocks) == flatten(mapSeq(LAMBDA b : b.synsets, blocks))

\* the text of a record: markup characters are escaped
encodeXmlEntities(str) ==
  replaceAll(replaceAll(replaceAll(replaceAll(replaceAll(str,
    "&", "&amp;"), "<", "&lt;"), ">", "&gt;"), "\"", "&quot;"), "'", "&apos;")

Attr(name, value) == name \o "=\"" \o encodeXmlEntities(value) \o "\""

\* the attributes of a tag, in the order the corpus writes them
Attrs(c, q) ==
  LET o == IF c.attrOrder = "idFirst" THEN q ELSE reverse(q)
  IN  concat(mapSeq(LAMBDA a : " " \o a, o))

EntryOpenLine(c, e) ==
  IF c.entryAttrs = "idOnly" THEN "<LexicalEntry" \o Attrs(c, <<Attr("id", e.id)>>) \o ">"
  ELSE "<LexicalEntry"
         \o Attrs(c, <<Attr("id", e.id), Attr("status", "checked")>>) \o ">"

LemmaLine(c, l) ==
  "  <Lemma"
    \o Attrs(c, <<Attr("writtenForm", l.writtenForm), Attr("partOfSpeech", l.partOfSpeech)>>)
    \o "/>"

SenseLine(c, e, synsetId) ==
  "  <Sense"
    \o Attrs(c, <<Attr("id", e.id \o "-" \o synsetId), Attr("synset", synsetId)>>)
    \o "/>"

EntryLines(c, e) ==
  <<EntryOpenLine(c, e)>>
    \o mapSeq(LAMBDA l : LemmaLine(c, l), e.lemmas)
    \o mapSeq(LAMBDA y : SenseLine(c, e, y), e.synsets)
    \o <<"</LexicalEntry>">>

SynsetLines(c, y) ==
  << "<Synset"
       \o Attrs(c, <<Attr("id", y.id), Attr("ili", "i" \o y.id),
                     Attr("partOfSpeech", y.partOfSpeech)>>)
       \o ">" >>
    \o mapSeq(LAMBDA d : "  <Definition>" \o encodeXmlEntities(d) \o "</Definition>",
              y.definitions)
    \o <<"</Synset>">>

Render(c) ==
  <<"<LexicalResource>">>
    \o flatten(mapSeq(LAMBDA e : EntryLines(c, e), EntriesOf(c.blocks)))
    \o flatten(mapSeq(LAMBDA y : SynsetLines(c, y), SynsetsOf(c.blocks)))
    \o <<"</LexicalResource>">>

Corpora(entryAttrs) ==
  {[blocks |-> b, attrOrder |-> o, entryAttrs |-> a] :
     b \in BlockChoices, o \in {"idFirst", "idLast"}, a \in entryAttrs}

InitPipeline(entryAttrs) ==
  /\ \E a \in ArgvInputs : InitConfig(a)
  /\ \/ /\ fileExists = TRUE
        /\ corpus \in Corpora(entryAttrs)
     \/ /\ fileExists = FALSE
        /\ corpus = [blocks |-> <<>>, attrOrder |-> "idFirst", entryAttrs |-> "idOnly"]
  /\ fileLines = IF fileExists THEN Render(corpus) ELSE <<>>
  /\ InitParser /\ InitTables /\ InitSCC /\ InitScoring /\ InitHarness
  /\ InitRunner
  /\ graph = EmptyMap
  /\ pc = "start"

\* every entry tag carries its identifier only, as in the WordNet export
Init == InitPipeline({"idOnly"})

Next ==
  \/ Main_Start
  \/ ParseLine
  \/ ReadError
  \/ ParseWordNet_Phase2
  \/ Main_BuildGraph
  \/ FindSCCs_Loop
  \/ StrongConnect_Neighbor
  \/ StrongConnect_Return
  \/ FindSCCs_Return
  \/ Main_BuildPrimes
  \/ Main_Write

Spec == Init /\ [][Next]_vars

\* entry tags with a second attribute, written after or before the identifier
InitAttrs == InitPipeline({"idOnly", "withStatus"})

SpecAttrs == InitAttrs /\ [][Next]_vars

\* the script run twice in a row on the same files
InitTwice == InitPipeline({"idOnly"}) /\ corpus.attrOrder = "idFirst"

NextTwice == Next \/ Main_Rerun

SpecTwice == InitTwice /\ [][NextTwice]_vars

(***************************************************************************)
(* findSCCs on every dependency graph over GraphWords with at most         *)
(* MaxEdges edges; the keys and the members of each edge set are in the    *)
(* order of GraphWords or in the reverse order.                            *)
(***************************************************************************)
GraphWords == <<"entity", "thing", "body", "time">>

MaxEdges == 4

MkGraph(keys, members, E) ==
  [keys |-> keys,
   val  |-> [v \in Range(keys) |-> filter(LAMBDA w : <<v, w>> \in E, members)]]

GraphInputs ==
  {MkGraph(k, m, E) :
     k \in {GraphWords, reverse(GraphWords)},
     m \in {GraphWords, reverse(GraphWords)},
     E \in {F \in SUBSET (Range(GraphWords) \X Range(GraphWords)) :
              Cardinality(F) <= MaxEdges}}

InitSCCs ==
  /\ InitInput /\ InitParser /\ InitTables /\ InitSCC /\ InitScoring /\ InitHarness
  /\ InitRunner
  /\ graph \in GraphInputs
  /\ pc = "findSCCs"

NextSCCs ==
  \/ FindSCCs_Loop
  \/ StrongConnect_Neighbor
  \/ StrongConnect_Return
  \/ FindSCCs_Return

SpecSCCs == InitSCCs /\ [][NextSCCs]_vars

(***************************************************************************)
(* extractContentWords on every text of at most MaxPieces pieces of        *)
(* TextPieces, under each stop-word configuration of the command line      *)
(***************************************************************************)
TextPieces ==
  {"A", "a", "Thing", "thing", "that", "is", "the", " ", "-", "'s", "\t", "2"}

MaxPieces == 3

TollText == "A Thing that is a Thing"

TextInputs ==
  {TollText} \cup
  UNION {{concat(q) : q \in [1..n -> TextPieces]} : n \in 0..MaxPieces}

InitTok ==
  /\ \E a \in ArgvInputs : InitConfig(a)
  /\ fileLines = <<>> /\ corpus = <<>> /\ fileExists = TRUE
  /\ InitParser /\ InitTables /\ InitSCC /\ InitScoring
  /\ graph = EmptyMap
  /\ text \in TextInputs
  /\ result = <<>>
  /\ InitRunner
  /\ pc = "extract"

ExtractContentWords_Call ==
  /\ pc = "extract"
  /\ result' = extractContentWords(text)
  /\ pc' = "extracted"
  /\ UnchangedInput /\ UnchangedRunner /\ UnchangedParser /\ UnchangedTables
  /\ UnchangedSCC
  /\ UnchangedScoring
  /\ UNCHANGED <<graph, text>>

NextTok == ExtractContentWords_Call

SpecTok == InitTok /\ [][NextTok]_vars

(***************************************************************************)
(* parseWordNet on damaged files.  A file is a sequence of at most         *)
(* MaxFragments fragments; a fragment lists its lines as they stand in the *)
(* file, and the entries and concept sets that its lines state in full     *)
(* (opened, with their sub-records, and closed by their own end marker).   *)
(***************************************************************************)
Fragment(lines, entries, synsets) ==
  [lines |-> lines, entries |-> entries, synsets |-> synsets]

FragmentLibrary ==
  << \* 1: an entry
     Fragment(<<"<LexicalEntry id=\"e-entity\">",
                "  <Lemma writtenForm=\"entity\" partOfSpeech=\"n\"/>",
                "  <Sense id=\"e-entity-1\" synset=\"s-entity\"/>",
                "</LexicalEntry>">>,
              <<Entry("e-entity", <<Lem("entity", "n")>>, <<"s-entity">>)>>, <<>>),
     \* 2: a concept set
     Fragment(<<"<Synset id=\"s-entity\" partOfSpeech=\"n\">",
                "  <Definition>a thing</Definition>",
                "</Synset>">>,
              <<>>, <<Synset("s-entity", "n", <<"a thing">>)>>),
     \* 3: an entry without its end marker
     Fragment(<<"<LexicalEntry id=\"e-body\">",
                "  <Lemma writtenForm=\"body\" partOfSpeech=\"n\"/>",
                "  <Sense id=\"e-body-1\" synset=\"s-entity\"/>">>,
              <<>>, <<>>),
     \* 4: a concept set without its end marker
     Fragment(<<"<Synset id=\"s-body\" partOfSpeech=\"n\">",
                "  <Definition>the body</Definition>">>,
              <<>>, <<>>),
     \* 5: a concept set without an identifier
     Fragment(<<"<Synset partOfSpeech=\"n\">",
                "  <Definition>a time</Definition>",
                "</Synset>">>,
              <<>>, <<>>),
     \* 6: a concept set whose definition is never closed
     Fragment(<<"<Synset id=\"s-time\" partOfSpeech=\"n\">",
                "  <Definition>a time when",
                "</Synset>">>,
              <<>>, <<Synset("s-time", "n", <<>>)>>),
     \* 7: a concept set with a definition over three lines and one on a line
     Fragment(<<"<Synset id=\"s-exist\" partOfSpeech=\"v\">",
                "  <Definition>to be &amp; ",
                "to exist &lt;here&gt;",
                " now</Definition>",
                "  <Definition>to go</Definition>",
                "</Synset>">>,
              <<>>, <<Synset("s-exist", "v", <<"to be & to exist <here> now", "to go">>)>>),
     \* 8: an entry whose lemma has no part of speech
     Fragment(<<"<LexicalEntry id=\"e-thing\">",
                "  <Lemma writtenForm=\"thing\"/>",
                "  <Sense id=\"e-thing-1\" synset=\"s-entity\"/>",
                "</LexicalEntry>">>,
              <<Entry("e-thing", <<>>, <<"s-entity">>)>>, <<>>),
     \* 9: an entry whose lemma has no written form
     Fragment(<<"<LexicalEntry id=\"e-form\">",
                "  <Lemma partOfSpeech=\"n\"/>",
                "  <Sense id=\"e-form-1\" synset=\"s-entity\"/>",
                "</LexicalEntry>">>,
              <<Entry("e-form", <<>>, <<"s-entity">>)>>, <<>>),
     \* 10: an entry and its concept set, which has no definition
     Fragment(<<"<LexicalEntry id=\"e-void\">",
                "  <Lemma writtenForm=\"void\" partOfSpeech=\"n\"/>",
                "  <Sense id=\"e-void-1\" synset=\"s-void\"/>",
                "</LexicalEntry>",
                "<Synset id=\"s-void\" partOfSpeech=\"n\">",
                "</Synset>">>,
              <<Entry("e-void", <<Lem("void", "n")>>, <<"s-void">>)>>,
              <<Synset("s-void", "n", <<>>)>>),
     \* 11: an entry without a lemma
     Fragment(<<"<LexicalEntry id=\"e-none\">",
                "  <Sense id=\"e-none-1\" synset=\"s-entity\"/>",
                "</LexicalEntry>">>,
              <<Entry("e-none", <<>>, <<"s-entity">>)>>, <<>>),
     \* 12: lines outside every record
     Fragment(<<"<!-- generated -->",
                "",
                "  <Lemma writtenForm=\"stray\" partOfSpeech=\"n\"/>">>,
              <<>>, <<>>) >>

MaxFragments == 3

FragmentChoices ==
  UNION {{[i \in 1..n |-> FragmentLibrary[q[i]]] : q \in [1..n -> 1..Len(FragmentLibrary)]} :
           n \in 0..MaxFragments}

InitLines ==
  /\ InitConfig(<<>>)
  /\ fileExists = TRUE
  /\ \E f \in FragmentChoices :
       /\ corpus = [blocks |-> mapSeq(LAMBDA x : Block(x.entries, x.synsets), f),
                    attrOrder |-> "idFirst", entryAttrs |-> "idOnly",
                    fragments |-> f]
       /\ fileLines = flatten(mapSeq(LAMBDA x : x.lines, f))
  /\ InitParser /\ InitTables /\ InitSCC /\ InitScoring /\ InitHarness
  /\ InitRunner
  /\ graph = EmptyMap
  /\ pc = "parse"

NextLines ==
  \/ ParseLine
  \/ ParseWordNet_Phase2

SpecLines == InitLines /\ [][NextLines]_vars

(***************************************************************************)
(* tests/test-all.mjs.  A child process is [state, code]: spawned (the     *)
(* script runs), spawnFailed (the process could not be started and the     *)
(* error event is pending), errored (the error event has been handled) or  *)
(* closed, with code <<>> (null) until it closes and then <<the code>>,    *)
(* which is <<>> for a process ended by a signal.                          *)
(***************************************************************************)
tests ==
  << [name |-> "Source Data", script |-> "test-source-data.mjs"],
     [name |-> "NSM Primes", script |-> "test-nsm-primes.mjs"],
     [name |-> "Discovery", script |-> "test-discovery.mjs"] >>

\* the close codes of a child process that ran: an exit status, or null
ExitCodes == {<<0>>, <<1>>, <<2>>, <<>>}

\* the close code of a child process that could not be started
SpawnFailureCode == <<-2>>

\* line 36 with every status but 1 taken for a pass
PassedUnlessOne(code) == code # <<1>>

\* line 36: passed: code === 0
Passed(code) == code = <<0>>

\* resolve(value): a promise that is settled keeps its value
Resolve(promise, value) == IF promise = <<>> THEN <<value>> ELSE promise

UnchangedPipeline ==
  /\ UnchangedInput /\ UnchangedParser /\ UnchangedTables /\ UnchangedSCC
  /\ UnchangedHarness
  /\ UNCHANGED <<graph, wordToSCC, primes, outputFile, firstRun>>

\* lines 53-55: the next iteration of the loop calls runTest, which spawns
\* the child process and returns the promise that main awaits
TestAll_RunTest ==
  /\ pc = "testLoop"
  /\ Len(results) < Len(tests)
  /\ \E st \in {"spawned", "spawnFailed"} :
       procs' = Append(procs, [state |-> st, code |-> <<>>])
  /\ promises' = Append(promises, <<>>)
  /\ pc' = "testAwait"
  /\ UNCHANGED <<results, exitCode>>
  /\ UnchangedPipeline

\* lines 35-37: the close event of the child process of suite i
Proc_OnClose(i) ==
  /\ pc \in {"testLoop", "testAwait"}
  /\ procs[i].state \in {"spawned", "errored"}
  /\ \E code \in IF procs[i].state = "spawned" THEN ExitCodes ELSE {SpawnFailureCode} :
       /\ procs' = [procs EXCEPT ![i] = [state |-> "closed", code |-> code]]
       /\ promises' = [promises EXCEPT ![i] =
            Resolve(@, [name |-> tests[i].name, passed |-> Passed(code), code |-> code])]
  /\ UNCHANGED <<pc, results, exitCode>>
  /\ UnchangedPipeline

\* lines 39-42: the error event of the child process of suite i
Proc_OnError(i) ==
  /\ pc \in {"testLoop", "testAwait"}
  /\ procs[i].state = "spawnFailed"
  /\ procs' = [procs EXCEPT ![i].state = "errored"]
  /\ promises' = [promises EXCEPT ![i] =
       Resolve(@, [name |-> tests[i].name, passed |-> FALSE, code |-> <<1>>])]
  /\ UNCHANGED <<pc, results, exitCode>>
  /\ UnchangedPipeline

\* lines 55-56: the awaited promise is settled, its value is pushed
TestAll_Push ==
  /\ pc = "testAwait"
  /\ promises[Len(promises)] # <<>>
  /\ results' = Append(results, promises[Len(promises)][1])
  /\ pc' = "testLoop"
  /\ UNCHANGED <<procs, promises, exitCode>>
  /\ UnchangedPipeline

\* lines 64-81: the summary and the exit
TestAll_Exit ==
  /\ pc = "testLoop"
  /\ Len(results) = Len(tests)
  /\ LET failed == Cardinality({k \in 1..Len(results) : ~results[k].passed})
     IN  exitCode' = IF failed > 0 THEN <<1>> ELSE <<0>>
  /\ pc' = "testExit"
  /\ UNCHANGED <<procs, promises, results>>
  /\ UnchangedPipeline

InitTestAll ==
  /\ InitInput /\ InitParser /\ InitTables /\ InitSCC /\ InitScoring /\ InitHarness
  /\ InitRunner
  /\ graph = EmptyMap
  /\ pc = "testLoop"

NextTestAll ==
  \/ TestAll_RunTest
  \/ \E i \in 1..Len(procs) : Proc_OnClose(i)
  \/ \E i \in 1..Len(procs) : Proc_OnError(i)
  \/ TestAll_Push
  \/ TestAll_Exit

SpecTestAll == InitTestAll /\ [][NextTestAll]_vars

(***************************************************************************)
(* extract-nsm-primes.mjs: findPrimeMatches and toLinksNotation, applied   *)
(* by main to the reference list of semantic-primes.mjs and to the entries *)
(* and synsets its parser returns.                                         *)
(***************************************************************************)
\* semantic-primes.mjs, SEMANTIC_PRIMES: the reference list, category by
\* category in the order of the object's properties
SEMANTIC_PRIMES ==
  << [category |-> "substantives",
      primes |-> << [prime |-> "I", allolexes |-> <<"ME">>,
                     searchTerms |-> <<"I", "me", "self">>],
                    [prime |-> "YOU", allolexes |-> <<>>,
                     searchTerms |-> <<"you">>],
                    [prime |-> "SOMEONE", allolexes |-> <<"PERSON">>,
                     searchTerms |-> <<"someone", "person", "somebody">>],
                    [prime |-> "PEOPLE", allolexes |-> <<>>,
                     searchTerms |-> <<"people", "persons">>],
                    [prime |-> "SOMETHING", allolexes |-> <<"THING">>,
                     searchTerms |-> <<"something", "thing">>],
                    [prime |-> "BODY", allolexes |-> <<>>,
                     searchTerms |-> <<"body">>] >>],
     [category |-> "relationalSubstantives",
      primes |-> << [prime |-> "KIND", allolexes |-> <<"SORT">>,
                     searchTerms |-> <<"kind", "sort", "type">>],
                    [prime |-> "PART", allolexes |-> <<>>,
                     searchTerms |-> <<"part">>] >>],
     [category |-> "determiners",
      primes |-> << [prime |-> "THIS", allolexes |-> <<>>,
                     searchTerms |-> <<"this">>],
                    [prime |-> "THE SAME", allolexes |-> <<>>,
                     searchTerms |-> <<"same", "identical">>],
                    [prime |-> "OTHER", allolexes |-> <<"ELSE">>,
                     searchTerms |-> <<"other", "else", "another">>] >>],
     [category |-> "quantifiers",
      primes |-> << [prime |-> "ONE", allolexes |-> <<>>,
                     searchTerms |-> <<"one">>],
                    [prime |-> "TWO", allolexes |-> <<>>,
                     searchTerms |-> <<"two">>],
                    [prime |-> "SOME", allolexes |-> <<>>,
                     searchTerms |-> <<"some">>],
                    [prime |-> "ALL", allolexes |-> <<>>,
                     searchTerms |-> <<"all", "every">>],
                    [prime |-> "MUCH", allolexes |-> <<"MANY">>,
                     searchTerms |-> <<"much", "many">>],
                    [prime |-> "LITTLE", allolexes |-> <<"FEW">>,
                     searchTerms |-> <<"little", "few">>] >>],
     [category |-> "evaluators",
      primes |-> << [prime |-> "GOOD", allolexes |-> <<>>,
                     searchTerms |-> <<"good">>],
                    [prime |-> "BAD", allolexes |-> <<>>,
                     searchTerms |-> <<"bad">>] >>],
     [category |-> "descriptors",
      primes |-> << [prime |-> "BIG", allolexes |-> <<"LARGE">>,
                     searchTerms |-> <<"big", "large">>],
                    [prime |-> "SMALL", allolexes |-> <<>>,
                     searchTerms |-> <<"small", "little">>] >>],
     [category |-> "mentalPredicates",
      primes |-> << [prime |-> "THINK", allolexes |-> <<>>,
                     searchTerms |-> <<"think">>],
                    [prime |-> "KNOW", allolexes |-> <<>>,
                     searchTerms |-> <<"know">>],
                    [prime |-> "WANT", allolexes |-> <<>>,
                     searchTerms |-> <<"want">>],
                    [prime |-> "FEEL", allolexes |-> <<>>,
                     searchTerms |-> <<"feel">>],
                    [prime |-> "SEE", allolexes |-> <<>>,
                     searchTerms |-> <<"see">>],
                    [prime |-> "HEAR", allolexes |-> <<>>,
                     searchTerms |-> <<"hear">>] >>],
     [category |-> "speech",
      primes |-> << [prime |-> "SAY", allolexes |-> <<>>,
                     searchTerms |-> <<"say">>],
                    [prime |-> "WORDS", allolexes |-> <<>>,
                     searchTerms |-> <<"word", "words">>],
                    [prime |-> "TRUE", allolexes |-> <<>>,
                     searchTerms |-> <<"true", "truth">>] >>],
     [category |-> "actionsEventsMovement",
      primes |-> << [prime |-> "DO", allolexes |-> <<>>,
                     searchTerms |-> <<"do">>],
                    [prime |-> "HAPPEN", allolexes |-> <<>>,
                     searchTerms |-> <<"happen", "occur">>],
                    [prime |-> "MOVE", allolexes |-> <<>>,
                     searchTerms |-> <<"move">>] >>],
     [category |-> "locationExistenceSpecification",
      primes |-> << [prime |-> "BE (SOMEWHERE)", allolexes |-> <<"BE AT">>,
                     searchTerms |-> <<"be", "exist", "located">>],
                    [prime |-> "THERE IS", allolexes |-> <<"EXIST">>,
                     searchTerms |-> <<"exist", "existence">>],
                    [prime |-> "BE (SOMEONE/SOMETHING)", allolexes |-> <<>>,
                     searchTerms |-> <<"be", "being">>] >>],
     [category |-> "possession",
      primes |-> << [prime |-> "MINE", allolexes |-> <<"HAVE">>,
                     searchTerms |-> <<"have", "possess", "own">>] >>],
     [category |-> "lifeAndDeath",
      primes |-> << [prime |-> "LIVE", allolexes |-> <<>>,
                     searchTerms |-> <<"live", "alive", "life">>],
                    [prime |-> "DIE", allolexes |-> <<>>,
                     searchTerms |-> <<"die", "death">>] >>],
     [category |-> "time",
      primes |-> << [prime |-> "WHEN", allolexes |-> <<"TIME">>,
                     searchTerms |-> <<"when", "time">>],
                    [prime |-> "NOW", allolexes |-> <<>>,
                     searchTerms |-> <<"now", "present">>],
                    [prime |-> "BEFORE", allolexes |-> <<>>,
                     searchTerms |-> <<"before">>],
                    [prime |-> "AFTER", allolexes |-> <<>>,
                     searchTerms |-> <<"after">>],
                    [prime |-> "A LONG TIME", allolexes |-> <<>>,
                     searchTerms |-> <<"long">>],
                    [prime |-> "A SHORT TIME", allolexes |-> <<>>,
                     searchTerms |-> <<"short", "brief">>],
                    [prime |-> "FOR SOME TIME", allolexes |-> <<>>,
                     searchTerms |-> <<"while", "duration">>],
                    [prime |-> "MOMENT", allolexes |-> <<"INSTANT">>,
                     searchTerms |-> <<"moment", "instant">>] >>],
     [category |-> "space",
      primes |-> << [prime |-> "WHERE", allolexes |-> <<"PLACE">>,
                     searchTerms |-> <<"where", "place">>],
                    [prime |-> "HERE", allolexes |-> <<>>,
                     searchTerms |-> <<"here">>],
                    [prime |-> "ABOVE", allolexes |-> <<>>,
                     searchTerms |-> <<"above", "over">>],
                    [prime |-> "BELOW", allolexes |-> <<>>,
                     searchTerms |-> <<"below", "under">>],
                    [prime |-> "FAR", allolexes |-> <<>>,
                     searchTerms |-> <<"far", "distant">>],
                    [prime |-> "NEAR", allolexes |-> <<"CLOSE">>,
                     searchTerms |-> <<"near", "close">>],
                    [prime |-> "SIDE", allolexes |-> <<>>,
                     searchTerms |-> <<"side">>],
                    [prime |-> "INSIDE", allolexes |-> <<>>,
                     searchTerms |-> <<"inside", "within">>],
                    [prime |-> "TOUCH", allolexes |-> <<"CONTACT">>,
                     searchTerms |-> <<"touch", "contact">>] >>],
     [category |-> "logicalConcepts",
      primes |-> << [prime |-> "NOT", allolexes |-> <<>>,
                     searchTerms |-> <<"not", "negation">>],
                    [prime |-> "MAYBE", allolexes |-> <<"PERHAPS">>,
                     searchTerms |-> <<"maybe", "perhaps", "possible">>],
                    [prime |-> "CAN", allolexes |-> <<"POSSIBLE">>,
                     searchTerms |-> <<"can", "able", "possible">>],
                    [prime |-> "BECAUSE", allolexes |-> <<>>,
                     searchTerms |-> <<"because", "cause">>],
                    [prime |-> "IF", allolexes |-> <<>>,
                     searchTerms |-> <<"if", "condition">>] >>],
     [category |-> "intensifierAugmentor",
      primes |-> << [prime |-> "VERY", allolexes |-> <<>>,
                     searchTerms |-> <<"very", "extremely">>],
                    [prime |-> "MORE", allolexes |-> <<>>,
                     searchTerms |-> <<"more">>] >>],
     [category |-> "similarity",
      primes |-> << [prime |-> "LIKE", allolexes |-> <<"AS", "WAY">>,
                     searchTerms |-> <<"like", "similar", "way">>] >>] >>

\* getAllPrimes: every prime with the key of its category, category by category
RECURSIVE getAllPrimes(_)
getAllPrimes(sp) ==
  IF sp = <<>> THEN <<>>
  ELSE [k \in 1..Len(Head(sp).primes) |->
          [prime |-> Head(sp).primes[k].prime,
           allolexes |-> Head(sp).primes[k].allolexes,
           searchTerms |-> Head(sp).primes[k].searchTerms,
           category |-> Head(sp).category]]
       \o getAllPrimes(Tail(sp))

\* lines 233-245: one match for every sense of the entry whose synset is known
RECURSIVE SenseMatches(_, _, _)
SenseMatches(lemma, senses, synsets) ==
  IF senses = <<>> THEN <<>>
  ELSE (IF MapHas(synsets, Head(senses).synset)
        THEN LET synset == MapGet(synsets, Head(senses).synset)
             IN  << [lemma |-> lemma.writtenForm, partOfSpeech |-> lemma.partOfSpeech,
                     synsetId |-> synset.id, ili |-> synset.ili,
                     definitions |-> synset.definitions, examples |-> synset.examples] >>
        ELSE <<>>)
       \o SenseMatches(lemma, Tail(senses), synsets)

\* lines 230-247: the lemmas of one entry whose written form is the term
RECURSIVE LemmaMatches(_, _, _, _)
LemmaMatches(termLower, lemmas, senses, synsets) ==
  IF lemmas = <<>> THEN <<>>
  ELSE (IF toLowerCase(Head(lemmas).writtenForm) = termLower
        THEN SenseMatches(Head(lemmas), senses, synsets) ELSE <<>>)
       \o LemmaMatches(termLower, Tail(lemmas), senses, synsets)

\* lines 229-248: the loop over the entries
RECURSIVE EntryMatches(_, _, _)
EntryMatches(termLower, entries, synsets) ==
  IF entries = <<>> THEN <<>>
  ELSE LemmaMatches(termLower, Head(entries).lemmas, Head(entries).senses, synsets)
       \o EntryMatches(termLower, Tail(entries), synsets)

\* lines 224-249: primeMatches, the loop over the search terms of a prime
RECURSIVE TermMatches(_, _, _)
TermMatches(searchTerms, entries, synsets) ==
  IF searchTerms = <<>> THEN <<>>
  ELSE EntryMatches(toLowerCase(Head(searchTerms)), entries, synsets)
       \o TermMatches(Tail(searchTerms), entries, synsets)

KeepDuplicates(primeMatches, seenSynsets, unique) == unique \o primeMatches

\* lines 252-259: the first match of every synset id
RECURSIVE RemoveDuplicates(_, _, _)
RemoveDuplicates(primeMatches, seenSynsets, unique) ==
  IF primeMatches = <<>> THEN unique
  ELSE IF Head(primeMatches).synsetId \in seenSynsets
       THEN RemoveDuplicates(Tail(primeMatches), seenSynsets, unique)
       ELSE RemoveDuplicates(Tail(primeMatches),
                             seenSynsets \cup {Head(primeMatches).synsetId},
                             Append(unique, Head(primeMatches)))

\* lines 220-271
RECURSIVE findPrimeMatches(_, _, _)
findPrimeMatches(entries, synsets, primeList) ==
  IF primeList = <<>> THEN <<>>
  ELSE LET prime == Head(primeList)
           primeMatches == TermMatches(prime.searchTerms, entries, synsets)
       IN  << [prime |-> prime.prime, category |-> prime.category,
               allolexes |-> prime.allolexes, searchTerms |-> prime.searchTerms,
               wordnetMatches |-> RemoveDuplicates(primeMatches, {}, <<>>)] >>
           \o findPrimeMatches(entries, synsets, Tail(primeList))

UpperCaseOf ==
  [c \in Chars(LowerLetters) |->
     Ch(UpperLetters, CHOOSE i \in 1..Len(LowerLetters) : Ch(LowerLetters, i) = c)]

\* String.prototype.toUpperCase on one character
UpperOf(c) == IF c \in DOMAIN UpperCaseOf THEN UpperCaseOf[c] ELSE c

Digits == Chars("0123456789")

\* .replace(/[^a-z]/g, '_')
NotLowerToUnderscore(c) == IF c \in Chars(LowerLetters) THEN c ELSE "_"

\* .replace(/[^a-z0-9]/gi, '_')
NotAlnumToUnderscore(c) == IF c \in Letters \cup Digits THEN c ELSE "_"

\* .replace(/([A-Z])/g, ' $1')
SpaceBeforeUpper(c) == IF c \in Chars(UpperLetters) THEN " " \o c ELSE c

\* line 304 and line 313: the identifier of a prime or an allolex
primeIdOf(name) == MapChars(NotLowerToUnderscore, toLowerCase(name), 1)

\* line 320
synsetIdOf(id) == MapChars(NotAlnumToUnderscore, id, 1)

\* lines 350-355
formatCategoryName(category) ==
  LET spaced == MapChars(SpaceBeforeUpper, category, 1)
  IN  trim(UpperOf(Ch(spaced, 1)) \o SubSeq(spaced, 2, Len(spaced)))

\* lines 362-368
escapeForLino(str) ==
  replaceAll(replaceAll(replaceAll(replaceAll(str,
    "\\", "\\\\"), "\"", "\\\""), "\n", "\\n"), "\r", "\\r")

\* lines 289-295: byCategory, an object whose keys are in insertion order.
\* No category of the reference list is a property name that {} inherits.
RECURSIVE GroupByCategory(_, _)
GroupByCategory(matches, byCategory) ==
  IF matches = <<>> THEN byCategory
  ELSE LET match == Head(matches)
           list == IF MapHas(byCategory, match.category)
                   THEN MapGet(byCategory, match.category) ELSE <<>>
       IN  GroupByCategory(Tail(matches),
                           MapSet(byCategory, match.category, Append(list, match)))

\* lines 311-316
RECURSIVE AllolexLines(_, _)
AllolexLines(allolexes, primeId) ==
  IF allolexes = <<>> THEN <<>>
  ELSE <<"(" \o primeIdOf(Head(allolexes)) \o " allolex_of " \o primeId \o ")">>
       \o AllolexLines(Tail(allolexes), primeId)

\* lines 319-336
RECURSIVE WordnetLines(_, _)
WordnetLines(wordnetMatches, primeId) ==
  IF wordnetMatches = <<>> THEN <<>>
  ELSE LET wn == Head(wordnetMatches)
           synsetId == synsetIdOf(wn.synsetId)
       IN  <<"(" \o primeId \o " wordnet_synset " \o synsetId \o ")">>
           \o (IF Len(wn.definitions) > 0
               THEN <<"(" \o synsetId \o " definition \""
                      \o escapeForLino(wn.definitions[1]) \o "\")">>
               ELSE <<>>)
           \o <<"(" \o synsetId \o " pos " \o wn.partOfSpeech \o ")">>
           \o (IF wn.ili # ""
               THEN <<"(" \o synsetId \o " ili \"" \o wn.ili \o "\")">> ELSE <<>>)
           \o WordnetLines(Tail(wordnetMatches), primeId)

\* lines 304-338: the lines of one prime
PrimeLines(prime, category) ==
  LET primeId == primeIdOf(prime.prime)
  IN  << "(" \o primeId \o " isa semantic_prime)",
         "(" \o primeId \o " category " \o category \o ")" >>
      \o AllolexLines(prime.allolexes, primeId)
      \o WordnetLines(prime.wordnetMatches, primeId)
      \o <<"">>

RECURSIVE PrimesLines(_, _)
PrimesLines(primeList, category) ==
  IF primeList = <<>> THEN <<>>
  ELSE PrimeLines(Head(primeList), category) \o PrimesLines(Tail(primeList), category)

\* lines 298-340: the loop over Object.entries(byCategory)
RECURSIVE CategoryLines(_, _)
CategoryLines(keys, byCategory) ==
  IF keys = <<>> THEN <<>>
  ELSE << "// === " \o formatCategoryName(Head(keys)) \o " ===", "" >>
       \o PrimesLines(MapGet(byCategory, Head(keys)), Head(keys))
       \o CategoryLines(Tail(keys), byCategory)

\* Array.prototype.join
RECURSIVE join(_, _)
join(lines, sep) ==
  IF lines = <<>> THEN ""
  ELSE IF Len(lines) = 1 THEN Head(lines)
  ELSE Head(lines) \o sep \o join(Tail(lines), sep)

\* lines 278-343
toLinksNotation(matches) ==
  LET byCategory == GroupByCategory(matches, EmptyMap)
  IN  join(<< "// NSM Semantic Primes extracted from Open English WordNet 2024",
              "// Based on Natural Semantic Metalanguage (NSM) theory by Anna Wierzbicka",
              "// These are pre-defined primes from linguistic research",
              "// Reference: Wierzbicka, A. (1996). Semantics: Primes and universals.",
              "" >>
           \o CategoryLines(byCategory.keys, byCategory), "\n")

\* String.prototype.split on one character
RECURSIVE split(_, _, _)
split(s, sep, i) ==
  LET j == indexOfChar(s, sep, i)
  IN  IF j > Len(s) THEN <<SubSeq(s, i, Len(s))>>
      ELSE <<SubSeq(s, i, j - 1)>> \o split(s, sep, j + 1)

\* the first position >= i of s that holds no character of [a-z_]
RECURSIVE skipIdChars(_, _)
skipIdChars(s, i) ==
  IF i <= Len(s) /\ (Ch(s, i) \in Chars(LowerLetters) \/ Ch(s, i) = "_")
  THEN skipIdChars(s, i + 1) ELSE i

\* test-nsm-primes.mjs line 53: /^\(([a-z_]+)\s+isa\s+semantic_prime\)/
primeLineMatch(line) ==
  LET j == skipIdChars(line, 2)
      k == skipSpaces(line, j)
      m == skipSpaces(line, k + 3)
  IN  IF /\ Ch(line, 1) = "("
         /\ j > 2
         /\ k > j
         /\ StartsAt(line, k, "isa")
         /\ m > k + 3
         /\ StartsAt(line, m, "semantic_prime)")
      THEN <<SubSeq(line, 2, j - 1)>> ELSE <<>>

\* test-nsm-primes.mjs lines 47-60: the primes a lino file declares, one
\* for each declaring line
parseLinoForPrimes(content) ==
  LET lines == split(content, "\n", 1)
  IN  [k \in 1..Len(lines) |-> primeLineMatch(lines[k])]

\* the entries and the synsets the parser of extract-nsm-primes.mjs returns
NsmEntryLibrary ==
  << [id |-> "e-thing", lemmas |-> <<[writtenForm |-> "thing", partOfSpeech |-> "n"]>>,
      senses |-> <<[id |-> "t1", synset |-> "oewn-1-n"],
                   [id |-> "t2", synset |-> "oewn-2-n"]>>],
     [id |-> "e-Thing", lemmas |-> <<[writtenForm |-> "Thing", partOfSpeech |-> "n"]>>,
      senses |-> <<[id |-> "T1", synset |-> "oewn-1-n"]>>],
     [id |-> "e-something",
      lemmas |-> <<[writtenForm |-> "something", partOfSpeech |-> "n"]>>,
      senses |-> <<[id |-> "s1", synset |-> "oewn-2-n"],
                   [id |-> "s2", synset |-> "oewn-9-n"]>>],
     [id |-> "e-i", lemmas |-> <<[writtenForm |-> "I", partOfSpeech |-> "n"]>>,
      senses |-> <<[id |-> "i1", synset |-> "oewn-3-n"]>>],
     [id |-> "e-same", lemmas |-> <<[writtenForm |-> "same", partOfSpeech |-> "a"]>>,
      senses |-> <<[id |-> "a1", synset |-> "oewn-4-a"],
                   [id |-> "a2", synset |-> "oewn-4-a"]>>] >>

NsmSynsetLibrary ==
  << [id |-> "oewn-1-n", ili |-> "i1", partOfSpeech |-> "n",
      definitions |-> <<"an entity", "a thing">>, examples |-> <<>>],
     [id |-> "oewn-2-n", ili |-> "", partOfSpeech |-> "n",
      definitions |-> <<>>, examples |-> <<"a thing">>],
     [id |-> "oewn-3-n", ili |-> "i3", partOfSpeech |-> "n",
      definitions |-> <<"the \"self\"">>, examples |-> <<>>],
     [id |-> "oewn-4-a", ili |-> "i4", partOfSpeech |-> "a",
      definitions |-> <<"not other\\wise">>, examples |-> <<>>] >>

\* line 207: this.synsets.set(this.currentSynset.id, this.currentSynset)
RECURSIVE SynsetMap(_, _)
SynsetMap(list, m) ==
  IF list = <<>> THEN m ELSE SynsetMap(Tail(list), MapSet(m, Head(list).id, Head(list)))

\* the members of q at the positions of P, in ascending order
RECURSIVE PickFrom(_, _, _)
PickFrom(q, P, i) ==
  IF i > Len(q) THEN <<>>
  ELSE (IF i \in P THEN <<q[i]>> ELSE <<>>) \o PickFrom(q, P, i + 1)

\* the primes I, YOU, SOMETHING, BODY, KIND and THE SAME of the reference list
NsmPrimeLibrary == PickFrom(getAllPrimes(SEMANTIC_PRIMES), {1, 2, 5, 6, 7, 10}, 1)

NsmInputs ==
  {[entries |-> PickFrom(NsmEntryLibrary, E, 1),
    synsets |-> SynsetMap(NsmSynsetLibrary, EmptyMap),
    primes |-> PickFrom(NsmPrimeLibrary, P, 1)] :
     E \in SUBSET (1..Len(NsmEntryLibrary)),
     P \in SUBSET (1..Len(NsmPrimeLibrary))}

\* line 394: const matches = findPrimeMatches(entries, synsets, primes)
ExtractNsm_FindPrimeMatches ==
  /\ pc = "findPrimeMatches"
  /\ result' = <<findPrimeMatches(text.entries, text.synsets, text.primes)>>
  /\ pc' = "toLinksNotation"
  /\ UNCHANGED <<text, outputFile, exitCode>>
  /\ UnchangedInput /\ UnchangedRunner /\ UnchangedParser /\ UnchangedTables
  /\ UnchangedSCC
  /\ UNCHANGED <<graph, wordToSCC, primes>>

\* lines 412-415: toLinksNotation(matches) is written to OUTPUT_FILE
ExtractNsm_Write ==
  /\ pc = "toLinksNotation"
  /\ outputFile' = <<toLinksNotation(result[1])>>
  /\ pc' = "extracted"
  /\ UNCHANGED <<text, result, exitCode>>
  /\ UnchangedInput /\ UnchangedRunner /\ UnchangedParser /\ UnchangedTables
  /\ UnchangedSCC
  /\ UNCHANGED <<graph, wordToSCC, primes>>

InitNsm ==
  /\ InitInput /\ InitParser /\ InitTables /\ InitSCC /\ InitScoring
  /\ InitRunner
  /\ graph = EmptyMap
  /\ text \in NsmInputs
  /\ result = <<>>
  /\ pc = "findPrimeMatches"

NextNsm == ExtractNsm_FindPrimeMatches \/ ExtractNsm_Write

SpecNsm == InitNsm /\ [][NextNsm]_vars

(***************************************************************************)
(* semantic-primes.mjs: getAllPrimes step by step, called by a script or   *)
(* through getPrimeCount.  text holds the entry point, the positions of    *)
(* the two loops and the value returned; result is the local array.        *)
(***************************************************************************)
PrimeEntryPoints == {"getAllPrimes", "getPrimeCount"}

\* line 438: const result = []
GetAllPrimes_Enter ==
  /\ pc = "primesCall"
  /\ result' = <<>>
  /\ text' = [text EXCEPT !.category = 1, !.prime = 1]
  /\ pc' = "primesLoop"
  /\ UnchangedInput /\ UnchangedRunner /\ UnchangedParser /\ UnchangedTables
  /\ UnchangedSCC /\ UnchangedScoring
  /\ UNCHANGED graph

\* lines 440-445: result.push({ ...prime, category })
GetAllPrimes_Push ==
  /\ pc = "primesLoop"
  /\ text.category <= Len(SEMANTIC_PRIMES)
  /\ text.prime <= Len(SEMANTIC_PRIMES[text.category].primes)
  /\ LET prime == SEMANTIC_PRIMES[text.category].primes[text.prime]
     IN  result' = Append(result,
                     [prime |-> prime.prime, allolexes |-> prime.allolexes,
                      searchTerms |-> prime.searchTerms,
                      category |-> SEMANTIC_PRIMES[text.category].category])
  /\ text' = [text EXCEPT !.prime = @ + 1]
  /\ UNCHANGED pc
  /\ UnchangedInput /\ UnchangedRunner /\ UnchangedParser /\ UnchangedTables
  /\ UnchangedSCC /\ UnchangedScoring
  /\ UNCHANGED graph

\* line 439: the next entry of Object.entries(SEMANTIC_PRIMES)
GetAllPrimes_NextCategory ==
  /\ pc = "primesLoop"
  /\ text.category <= Len(SEMANTIC_PRIMES)
  /\ text.prime > Len(SEMANTIC_PRIMES[text.category].primes)
  /\ text' = [text EXCEPT !.category = @ + 1, !.prime = 1]
  /\ UNCHANGED <<pc, result>>
  /\ UnchangedInput /\ UnchangedRunner /\ UnchangedParser /\ UnchangedTables
  /\ UnchangedSCC /\ UnchangedScoring
  /\ UNCHANGED graph

\* line 447: return result
GetAllPrimes_Return ==
  /\ pc = "primesLoop"
  /\ text.category > Len(SEMANTIC_PRIMES)
  /\ text' = [text EXCEPT !.returned = <<result>>]
  /\ pc' = IF text.entry = "getPrimeCount" THEN "primesCount" ELSE "primesReturned"
  /\ UNCHANGED result
  /\ UnchangedInput /\ UnchangedRunner /\ UnchangedParser /\ UnchangedTables
  /\ UnchangedSCC /\ UnchangedScoring
  /\ UNCHANGED graph

\* line 455: return getAllPrimes().length
GetPrimeCount_Return ==
  /\ pc = "primesCount"
  /\ text' = [text EXCEPT !.returned = <<Len(text.returned[1])>>]
  /\ pc' = "primesReturned"
  /\ UNCHANGED result
  /\ UnchangedInput /\ UnchangedRunner /\ UnchangedParser /\ UnchangedTables
  /\ UnchangedSCC /\ UnchangedScoring
  /\ UNCHANGED graph

InitPrimes ==
  /\ InitInput /\ InitParser /\ InitTables /\ InitSCC /\ InitScoring
  /\ InitRunner
  /\ graph = EmptyMap
  /\ \E e \in PrimeEntryPoints :
       text = [entry |-> e, category |-> 0, prime |-> 0, returned |-> <<>>]
  /\ result = <<>>
  /\ pc = "primesCall"

NextPrimes ==
  \/ GetAllPrimes_Enter
  \/ GetAllPrimes_Push
  \/ GetAllPrimes_NextCategory
  \/ GetAllPrimes_Return
  \/ GetPrimeCount_Return

SpecPrimes == InitPrimes /\ [][NextPrimes]_vars

(***************************************************************************)
(* calculatePrimeScore applied to the arguments held in text               *)
(***************************************************************************)
ScoreWords == {"go", "time", "exist", "entity", "concept", "abstract"}

\* scc.length
ScoreSizes == {1, 2, 3, 10, 24, 50, 99, 100, 101, 1000}

\* definitionWordCounts.get(word): 0 stands for undefined
ScoreCounts == {0, 1, 2, 10, 24, 100, 1000}

ScoreInputs ==
  [word : ScoreWords, sccSize : ScoreSizes, hasSelfLoop : BOOLEAN,
   refCount : ScoreCounts, isSelfRef : BOOLEAN, isInCycle : BOOLEAN]

ScoreOf(in) ==
  calculatePrimeScore(in.word, in.sccSize, in.hasSelfLoop, in.refCount,
                      in.isSelfRef, in.isInCycle)

\* lines 461-497
CalculatePrimeScore_Call ==
  /\ pc = "score"
  /\ result' = <<ScoreOf(text)>>
  /\ pc' = "scored"
  /\ UnchangedInput /\ UnchangedRunner /\ UnchangedParser /\ UnchangedTables
  /\ UnchangedSCC /\ UnchangedScoring
  /\ UNCHANGED <<graph, text>>

InitScore ==
  /\ InitInput /\ InitParser /\ InitTables /\ InitSCC /\ InitScoring
  /\ InitRunner
  /\ graph = EmptyMap
  /\ text \in ScoreInputs
  /\ result = <<>>
  /\ pc = "score"

NextScore == CalculatePrimeScore_Call

SpecScore == InitScore /\ [][NextScore]_vars

(***************************************************************************)
(* decodeXmlEntities on escaped text, alone and inside parseWordNet: text  *)
(* is the original string, fileLines a file whose only written form and    *)
(* whose definitions are its escaped form.                                 *)
(***************************************************************************)
\* the entity that stands for a character in XML text
EntityOf(c) ==
  IF c = "'" THEN "&apos;"
  ELSE IF c = "\"" THEN "&quot;"
  ELSE IF c = "<" THEN "&lt;"
  ELSE IF c = ">" THEN "&gt;"
  ELSE IF c = "&" THEN "&amp;"
  ELSE c

escapeXmlEntities(s) == MapChars(EntityOf, s, 1)

DecodeTokens ==
  {"&", "<", ">", "'", "\"", ";", "amp;", "lt;", "quot", "&amp;", "&lt;", "a B"}

MaxTokens == 3

RECURSIVE TokenStrings(_)
TokenStrings(n) ==
  IF n = 0 THEN {""}
  ELSE TokenStrings(n - 1) \cup {s \o t : s \in TokenStrings(n - 1), t \in DecodeTokens}

DecodeInputs == TokenStrings(MaxTokens)

\* a file with one entry and one synset; the synset has the text as a
\* definition on one line and three times over on three lines
EscapedFile(s) ==
  LET esc == escapeXmlEntities(s)
  IN  << "<LexicalEntry id=\"e1\">",
         "<Lemma writtenForm=\"" \o esc \o "\" partOfSpeech=\"n\"/>",
         "<Sense id=\"e1-1\" synset=\"s1\"/>",
         "</LexicalEntry>",
         "<Synset id=\"s1\" partOfSpeech=\"n\">",
         "<Definition>" \o esc \o "</Definition>",
         "<Definition>" \o esc,
         esc,
         esc \o "</Definition>",
         "</Synset>" >>

\* lines 123-130, applied to the escaped text
DecodeXmlEntities_Call ==
  /\ pc = "decode"
  /\ result' = <<decodeXmlEntities(escapeXmlEntities(text))>>
  /\ pc' = "parse"
  /\ UnchangedInput /\ UnchangedRunner /\ UnchangedParser /\ UnchangedTables
  /\ UnchangedSCC /\ UnchangedScoring
  /\ UNCHANGED <<graph, text>>

InitDecode ==
  /\ InitConfig(<<>>)
  /\ corpus = <<>> /\ fileExists = TRUE
  /\ text \in DecodeInputs
  /\ fileLines = EscapedFile(text)
  /\ InitParser /\ InitTables /\ InitSCC /\ InitScoring
  /\ InitRunner
  /\ graph = EmptyMap
  /\ result = <<>>
  /\ pc = "decode"

NextDecode ==
  \/ DecodeXmlEntities_Call
  \/ ParseLine
  \/ ParseWordNet_Phase2

SpecDecode == InitDecode /\ [][NextDecode]_vars

(***************************************************************************)
(* experiments/trace-circularity.mjs: traceCircularity, one step of dfs at *)
(* a time.  indices is the map visited, stack is path, callStack holds the *)
(* activations of dfs (word, depth, position in the words of the word's    *)
(* definitions; 0 before the body has run), text the arguments startWord   *)
(* and maxDepth, result the object returned.  STOP_WORDS is the script's   *)
(* own list, which has the words of DEFAULT_STOP_WORDS.                    *)
(***************************************************************************)
\* lines 196-200: the content words of the definitions of word, definition
\* by definition
RECURSIVE ContentWordsOfDefs(_)
ContentWordsOfDefs(defs) ==
  IF defs = <<>> THEN <<>>
  ELSE extractContentWords(Head(defs).definition) \o ContentWordsOfDefs(Tail(defs))

NextWords(word) == ContentWordsOfDefs(MapGet(lemmaToDefinitions, word))

\* line 180: path.findIndex(w => w === word), 0 for -1
RECURSIVE findIndex(_, _, _)
findIndex(path, word, i) ==
  IF i > Len(path) THEN 0
  ELSE IF path[i] = word THEN i
  ELSE findIndex(path, word, i + 1)

\* lines 184-186
RECURSIVE AddAll(_, _)
AddAll(set, words) ==
  IF words = <<>> THEN set ELSE AddAll(SetAdd(set, Head(words)), Tail(words))

PopFrame == SubSeq(callStack, 1, Len(callStack) - 1)

UnchangedOutsideTrace ==
  /\ UnchangedInput /\ UnchangedRunner /\ UnchangedParser /\ UnchangedTables
  /\ UnchangedScoring
  /\ UNCHANGED <<graph, text, lowlinks, onStack, sccs, index, processed>>

\* lines 161-171 and 209: the result object, visited, path, and dfs(startWord, 0)
TraceCircularity_Call ==
  /\ pc = "trace"
  /\ result' = [word |-> text.startWord, hasCycle |-> FALSE, cycles |-> <<>>,
                allWordsInChain |-> <<>>, wordsInCycles |-> <<>>]
  /\ indices' = EmptyFn
  /\ stack' = <<>>
  /\ callStack' = <<[word |-> text.startWord, depth |-> 0, next |-> 0]>>
  /\ pc' = "dfs"
  /\ UnchangedOutsideTrace

\* lines 174-193: the body of dfs up to the loop
Dfs_Enter ==
  /\ pc = "dfs"
  /\ callStack # <<>>
  /\ LET top == callStack[Len(callStack)]
         word == top.word
     IN  /\ top.next = 0
         /\ IF top.depth > text.maxDepth \/ ~MapHas(lemmaToDefinitions, word)
              THEN /\ callStack' = PopFrame
                   /\ UNCHANGED <<result, indices, stack>>
            ELSE IF word \in DOMAIN indices
              THEN LET cycleStartIdx == findIndex(stack, word, 1)
                       cycle == Append(SubSeq(stack, cycleStartIdx, Len(stack)), word)
                   IN  /\ result' =
                            IF cycleStartIdx # 0
                              THEN [result EXCEPT
                                      !.hasCycle = TRUE,
                                      !.cycles = Append(@, cycle),
                                      !.wordsInCycles = AddAll(@, cycle)]
                              ELSE [result EXCEPT !.hasCycle = TRUE]
                       /\ callStack' = PopFrame
                       /\ UNCHANGED <<indices, stack>>
            ELSE /\ indices' = FnSet(indices, word, top.depth)
                 /\ stack' = Append(stack, word)
                 /\ result' = [result EXCEPT !.allWordsInChain = SetAdd(@, word)]
                 /\ callStack' = [callStack EXCEPT ![Len(callStack)].next = 1]
  /\ UNCHANGED pc
  /\ UnchangedOutsideTrace

\* lines 197-204: the next content word of the definitions
Dfs_NextWord ==
  /\ pc = "dfs"
  /\ callStack # <<>>
  /\ LET top == callStack[Len(callStack)]
     IN  /\ top.next >= 1
         /\ top.next <= Len(NextWords(top.word))
         /\ LET nextWord == NextWords(top.word)[top.next]
                advance == [callStack EXCEPT ![Len(callStack)].next = top.next + 1]
            IN  callStack' =
                  IF MapHas(lemmaToDefinitions, nextWord)
                    THEN Append(advance,
                                [word |-> nextWord, depth |-> top.depth + 1, next |-> 0])
                    ELSE advance
  /\ UNCHANGED <<pc, result, indices, stack>>
  /\ UnchangedOutsideTrace

\* line 206: path.pop() and the return of dfs
Dfs_Return ==
  /\ pc = "dfs"
  /\ callStack # <<>>
  /\ LET top == callStack[Len(callStack)]
     IN  /\ top.next > Len(NextWords(top.word))
         /\ stack' = SubSeq(stack, 1, Len(stack) - 1)
         /\ callStack' = PopFrame
  /\ UNCHANGED <<pc, result, indices>>
  /\ UnchangedOutsideTrace

\* line 210: return result
TraceCircularity_Return ==
  /\ pc = "dfs"
  /\ callStack = <<>>
  /\ pc' = "traced"
  /\ UNCHANGED <<result, indices, stack, callStack>>
  /\ UnchangedOutsideTrace

TraceLemmas == <<"entity", "thing", "object">>

\* the words of the definitions: the lemmas and a word without an entry
TraceWords == <<"entity", "thing", "object", "matter">>

DefinitionOf(txt) == [definition |-> txt, partOfSpeech |-> "n", synsetId |-> "s"]

\* the definitions of a lemma whose definitions use the words nbrs: all in
\* one definition, one definition for each word, or the same definition twice
TraceDefinitions(nbrs, layout) ==
  LET all == DefinitionOf("a " \o join(nbrs, " or "))
  IN  IF layout = "twice" THEN <<all, all>>
      ELSE IF layout = "each" /\ nbrs # <<>>
        THEN [k \in 1..Len(nbrs) |-> DefinitionOf("the " \o nbrs[k])]
      ELSE <<all>>

TraceIndex(E, layout) ==
  [keys |-> TraceLemmas,
   val  |-> [v \in Range(TraceLemmas) |->
               TraceDefinitions(filter(LAMBDA w : <<v, w>> \in E, TraceWords), layout)]]

TraceIndexes ==
  {TraceIndex(E, layout) :
     E \in {F \in SUBSET (Range(TraceLemmas) \X Range(TraceWords)) :
              Cardinality(F) <= MaxEdges},
     layout \in {"one", "each", "twice"}}

\* maxDepth: a shallow bound and the default 10
TraceDepths == {1, 10}

InitTrace ==
  /\ argv = <<>> /\ stopFile = <<>> /\ STOP_WORDS = Range(DEFAULT_STOP_WORDS)
  /\ fileLines = <<>> /\ corpus = <<>> /\ fileExists = TRUE
  /\ InitParser /\ InitSCC /\ InitScoring /\ InitRunner
  /\ lemmaToDefinitions \in TraceIndexes
  /\ definitionWordCounts = EmptyMap /\ selfReferences = <<>>
  /\ graph = EmptyMap
  /\ \E d \in TraceDepths : text = [startWord |-> "entity", maxDepth |-> d]
  /\ result = <<>>
  /\ pc = "trace"

NextTrace ==
  \/ TraceCircularity_Call
  \/ Dfs_Enter
  \/ Dfs_NextWord
  \/ Dfs_Return
  \/ TraceCircularity_Return

SpecTrace == InitTrace /\ [][NextTrace]_vars

(***************************************************************************)
(* find-semantic-primes.mjs: findCircularReferences, the bounded-depth     *)
(* search, next to buildDependencyGraph and findSCCs on the same index.    *)
(* Its STOP_WORDS has the words of DEFAULT_STOP_WORDS.  An entry of        *)
(* circularRefs is held as [depth, path]: the intermediateWord of a        *)
(* depth-2 entry is a path of one word.                                    *)
(***************************************************************************)
\* lemmaToDefinitions.get(word) || []
DefinitionsOrNone(word) ==
  IF MapHas(lemmaToDefinitions, word) THEN MapGet(lemmaToDefinitions, word) ELSE <<>>

RECURSIVE SomeDefinitionHas(_, _)
SomeDefinitionHas(defs, word) ==
  /\ defs # <<>>
  /\ \/ word \in Range(extractContentWords(Head(defs).definition))
     \/ SomeDefinitionHas(Tail(defs), word)

\* lines 1159-1171 with every definition of subWord taken to lead back
SubSubEntriesAny(word, defWord, subWord) ==
  IF DefinitionsOrNone(subWord) # <<>>
    THEN <<[depth |-> 3, path |-> <<defWord, subWord>>]>>
    ELSE <<>>

\* lines 1159-1171: one entry for the first definition of subWord that has
\* the word, then break
SubSubEntries(word, defWord, subWord) ==
  IF SomeDefinitionHas(DefinitionsOrNone(subWord), word)
    THEN <<[depth |-> 3, path |-> <<defWord, subWord>>]>>
    ELSE <<>>

\* lines 1157-1172
RECURSIVE SubWordEntries(_, _, _)
SubWordEntries(word, defWord, subWords) ==
  IF subWords = <<>> THEN <<>>
  ELSE (IF Head(subWords) = word \/ Head(subWords) = defWord THEN <<>>
        ELSE SubSubEntries(word, defWord, Head(subWords)))
       \o SubWordEntries(word, defWord, Tail(subWords))

\* lines 1143-1173: the loop over the definitions of defWord, left at the
\* first definition that has the word
RECURSIVE SubDefEntries(_, _, _)
SubDefEntries(word, defWord, defWordDefs) ==
  IF defWordDefs = <<>> THEN <<>>
  ELSE LET subWords == extractContentWords(Head(defWordDefs).definition)
       IN  IF word \in Range(subWords)
             THEN <<[depth |-> 2, path |-> <<defWord>>]>>
             ELSE SubWordEntries(word, defWord, subWords)
                  \o SubDefEntries(word, defWord, Tail(defWordDefs))

\* lines 1138-1174
RECURSIVE DefWordEntries(_, _)
DefWordEntries(word, contentWords) ==
  IF contentWords = <<>> THEN <<>>
  ELSE (IF Head(contentWords) = word THEN <<>>
        ELSE SubDefEntries(word, Head(contentWords),
                           DefinitionsOrNone(Head(contentWords))))
       \o DefWordEntries(word, Tail(contentWords))

\* lines 1134-1175
RECURSIVE DefinitionEntries(_, _)
DefinitionEntries(word, definitions) ==
  IF definitions = <<>> THEN <<>>
  ELSE DefWordEntries(word, extractContentWords(Head(definitions).definition))
       \o DefinitionEntries(word, Tail(definitions))

\* lines 1124-1185: circularRefs has a key for every candidate with an entry
RECURSIVE findCircularReferences(_, _)
findCircularReferences(circularRefs, candidates) ==
  IF candidates = <<>> THEN circularRefs
  ELSE LET word == Head(candidates).word
           entries == DefinitionEntries(word, DefinitionsOrNone(word))
       IN  findCircularReferences(
             IF entries = <<>> THEN circularRefs ELSE MapSet(circularRefs, word, entries),
             Tail(candidates))

\* lines 1323-1339: the candidates are words that have an entry
Candidates == [k \in 1..Len(lemmaToDefinitions.keys) |-> [word |-> lemmaToDefinitions.keys[k]]]

\* line 1351
FindCircularReferences_Call ==
  /\ pc = "circular"
  /\ result' = findCircularReferences(EmptyMap, Candidates)
  /\ pc' = "buildGraph"
  /\ UnchangedInput /\ UnchangedRunner /\ UnchangedParser /\ UnchangedTables
  /\ UnchangedSCC /\ UnchangedScoring
  /\ UNCHANGED <<graph, text>>

InitCircular ==
  /\ argv = <<>> /\ stopFile = <<>> /\ STOP_WORDS = Range(DEFAULT_STOP_WORDS)
  /\ fileLines = <<>> /\ corpus = <<>> /\ fileExists = TRUE
  /\ InitParser /\ InitSCC /\ InitScoring /\ InitRunner /\ InitHarness
  /\ lemmaToDefinitions \in TraceIndexes
  /\ definitionWordCounts = EmptyMap /\ selfReferences = <<>>
  /\ graph = EmptyMap
  /\ pc = "circular"

NextCircular ==
  \/ FindCircularReferences_Call
  \/ Main_BuildGraph
  \/ FindSCCs_Loop
  \/ StrongConnect_Neighbor
  \/ StrongConnect_Return
  \/ FindSCCs_Return

SpecCircular == InitCircular /\ [][NextCircular]_vars

(***************************************************************************)
(* parseWordNet, lines 215-269, on files whose definitions are damaged:    *)
(* the pieces a file is put together from.                                 *)
(***************************************************************************)
DefinitionFragments ==
  << \* 1: a concept set with a definition on one line
     Fragment(<<"<Synset id=\"s-entity\" partOfSpeech=\"n\">",
                "  <Definition>a thing</Definition>",
                "</Synset>">>, <<>>, <<>>),
     \* 2: a concept set whose definition is never closed
     Fragment(<<"<Synset id=\"s-time\" partOfSpeech=\"n\">",
                "  <Definition>a time when",
                "</Synset>">>, <<>>, <<>>),
     \* 3: a concept set whose definition has lost its opening line
     Fragment(<<"<Synset id=\"s-now\" partOfSpeech=\"n\">",
                " now</Definition>",
                "</Synset>">>, <<>>, <<>>),
     \* 4: a concept set with a definition over two lines
     Fragment(<<"<Synset id=\"s-exist\" partOfSpeech=\"v\">",
                "  <Definition>to be &amp; ",
                "to exist</Definition>",
                "</Synset>">>, <<>>, <<>>),
     \* 5: a concept set cut off inside its definition
     Fragment(<<"<Synset id=\"s-body\" partOfSpeech=\"n\">",
                "  <Definition>the body">>, <<>>, <<>>),
     \* 6: a definition outside every concept set
     Fragment(<<"  <Definition>nothing</Definition>">>, <<>>, <<>>),
     \* 7: an entry
     Fragment(<<"<LexicalEntry id=\"e-entity\">",
                "  <Lemma writtenForm=\"entity\" partOfSpeech=\"n\"/>",
                "  <Sense id=\"e-entity-1\" synset=\"s-entity\"/>",
                "</LexicalEntry>">>, <<>>, <<>>) >>

DefinitionFiles ==
  UNION {{[i \in 1..n |-> DefinitionFragments[q[i]]] :
            q \in [1..n -> 1..Len(DefinitionFragments)]} : n \in 0..MaxFragments}

InitDefinitions ==
  /\ InitConfig(<<>>)
  /\ fileExists = TRUE
  /\ \E f \in DefinitionFiles :
       /\ corpus = [blocks |-> <<>>, attrOrder |-> "idFirst",
                    entryAttrs |-> "idOnly", fragments |-> f]
       /\ fileLines = flatten(mapSeq(LAMBDA x : x.lines, f))
  /\ InitParser /\ InitTables /\ InitSCC /\ InitScoring /\ InitHarness
  /\ InitRunner
  /\ graph = EmptyMap
  /\ pc = "parse"

NextDefinitions ==
  \/ ParseLine
  \/ ParseWordNet_Phase2

SpecDefinitions == InitDefinitions /\ [][NextDefinitions]_vars

(***************************************************************************)
(* Two runs of the script on the same file, the second with a stop-word    *)
(* configuration that selects every stop word of the first and possibly    *)
(* more.                                                                   *)
(***************************************************************************)
\* the command lines and stop-word files of the two runs
StopConfigs ==
  {[argv |-> <<>>, file |-> <<>>],
   [argv |-> <<"--stop-words=stop.txt">>, file |-> <<"thing">>],
   [argv |-> <<"--stop-words=stop.txt">>, file |-> <<"Entity", "# comment", " that ">>],
   [argv |-> <<"--stop-words=stop.txt">>, file |-> <<"that", "thing", "", "entity">>],
   [argv |-> <<"--use-default-stop-words">>, file |-> <<>>]}

\* the tables of a finished run
Tables ==
  [stopWords |-> STOP_WORDS,
   lemmaToDefinitions |-> lemmaToDefinitions,
   nodes |-> Range(graph.keys),
   edges |-> {e \in Range(graph.keys) \X Range(graph.keys) :
                e[2] \in Range(MapGet(graph, e[1]))},
   sccs |-> {Range(sccs[k]) : k \in 1..Len(sccs)},
   words |-> {primes[i].word : i \in 1..Len(primes)}]

\* the process has ended and the script is started again on the same file,
\* with a command line and a stop-word file that select a superset of the
\* stop words: main runs from line 607 in a new process
Main_RerunMoreStopWords ==
  /\ pc = "done"
  /\ firstRun = <<>>
  /\ firstRun' = <<Tables>>
  /\ \E c \in StopConfigs :
       /\ STOP_WORDS \subseteq parseStopWordsConfig(c.argv, c.file)
       /\ argv' = c.argv
       /\ stopFile' = c.file
       /\ STOP_WORDS' = parseStopWordsConfig(c.argv, c.file)
  /\ pc' = "start"
  /\ lineCount' = 0 /\ currentEntry' = <<>> /\ currentSynset' = <<>>
  /\ inDefinition' = FALSE /\ definitionText' = ""
  /\ synsetToLemmas' = EmptyMap /\ synsetDefinitions' = EmptyMap
  /\ lemmaToDefinitions' = EmptyMap /\ definitionWordCounts' = EmptyMap
  /\ selfReferences' = <<>>
  /\ graph' = EmptyMap
  /\ index' = FindSCCsLocals.index /\ stack' = FindSCCsLocals.stack
  /\ indices' = FindSCCsLocals.indices /\ lowlinks' = FindSCCsLocals.lowlinks
  /\ onStack' = FindSCCsLocals.onStack /\ sccs' = FindSCCsLocals.sccs
  /\ callStack' = <<>> /\ processed' = 0
  /\ wordToSCC' = EmptyMap /\ primes' = <<>>
  /\ exitCode' = <<>>
  /\ UNCHANGED <<fileExists, fileLines, corpus, outputFile>>
  /\ UNCHANGED <<procs, promises, results>>
  /\ UnchangedHarness

InitStop ==
  /\ \E c \in StopConfigs :
       /\ argv = c.argv
       /\ stopFile = c.file
       /\ STOP_WORDS = parseStopWordsConfig(c.argv, c.file)
  /\ fileExists = TRUE
  /\ \E P \in {Q \in SUBSET (1..Len(BlockLibrary)) : Cardinality(Q) <= MaxBlocks} :
       corpus = [blocks |-> Pick(P, 1), attrOrder |-> "idFirst", entryAttrs |-> "idOnly"]
  /\ fileLines = Render(corpus)
  /\ InitParser /\ InitTables /\ InitSCC /\ InitScoring /\ InitHarness
  /\ InitRunner
  /\ graph = EmptyMap
  /\ pc = "start"

NextStop == Next \/ Main_RerunMoreStopWords

SpecStop == InitStop /\ [][NextStop]_vars

(***************************************************************************)
(* Two runs of the script on two files that hold the same entry records    *)
(* and the same concept-set records, each kind in the same order, the      *)
(* two kinds interleaved differently.                                      *)
(***************************************************************************)
MaxMixed == 2

\* the sequences that hold the elements of a and of b, each in its order
RECURSIVE Merges(_, _)
Merges(a, b) ==
  IF a = <<>> THEN {b}
  ELSE IF b = <<>> THEN {a}
  ELSE {<<Head(a)>> \o m : m \in Merges(Tail(a), b)}
         \cup {<<Head(b)>> \o m : m \in Merges(a, Tail(b))}

EntryRecords(c) == mapSeq(LAMBDA e : EntryLines(c, e), EntriesOf(c.blocks))

SynsetRecords(c) == mapSeq(LAMBDA y : SynsetLines(c, y), SynsetsOf(c.blocks))

FileOf(records) ==
  <<"<LexicalResource>">> \o flatten(records) \o <<"</LexicalResource>">>

\* the files of a corpus, one for each interleaving of its records
Interleavings(c) ==
  {FileOf(m) : m \in Merges(EntryRecords(c), SynsetRecords(c))}

\* the files with all records of one kind first
Separated(c) ==
  {FileOf(EntryRecords(c) \o SynsetRecords(c)),
   FileOf(SynsetRecords(c) \o EntryRecords(c))}

\* the derived tables and the output of a finished run
Derived ==
  [fileLines |-> fileLines,
   lemmaToDefinitions |-> lemmaToDefinitions,
   definitionWordCounts |-> definitionWordCounts,
   selfReferences |-> selfReferences,
   graph |-> graph,
   output |-> outputFile]

\* the process has ended and the script is started again, with the same
\* command line, on a file that holds the same records with all records of
\* one kind first: main runs from line 607 in a new process
Main_RerunInterleaved ==
  /\ pc = "done"
  /\ firstRun = <<>>
  /\ firstRun' = <<Derived>>
  /\ fileLines' \in Separated(corpus)
  /\ pc' = "start"
  /\ lineCount' = 0 /\ currentEntry' = <<>> /\ currentSynset' = <<>>
  /\ inDefinition' = FALSE /\ definitionText' = ""
  /\ synsetToLemmas' = EmptyMap /\ synsetDefinitions' = EmptyMap
  /\ lemmaToDefinitions' = EmptyMap /\ definitionWordCounts' = EmptyMap
  /\ selfReferences' = <<>>
  /\ graph' = EmptyMap
  /\ index' = FindSCCsLocals.index /\ stack' = FindSCCsLocals.stack
  /\ indices' = FindSCCsLocals.indices /\ lowlinks' = FindSCCsLocals.lowlinks
  /\ onStack' = FindSCCsLocals.onStack /\ sccs' = FindSCCsLocals.sccs
  /\ callStack' = <<>> /\ processed' = 0
  /\ wordToSCC' = EmptyMap /\ primes' = <<>>
  /\ exitCode' = <<>>
  /\ STOP_WORDS' = parseStopWordsConfig(argv, stopFile)
  /\ UNCHANGED <<argv, stopFile, fileExists, corpus, outputFile>>
  /\ UNCHANGED <<procs, promises, results>>
  /\ UnchangedHarness

InitMixed ==
  /\ InitConfig(<<>>)
  /\ fileExists = TRUE
  /\ \E P \in {Q \in SUBSET (1..Len(BlockLibrary)) : Cardinality(Q) <= MaxMixed} :
       corpus = [blocks |-> Pick(P, 1), attrOrder |-> "idFirst", entryAttrs |-> "idOnly"]
  /\ fileLines \in Interleavings(corpus)
  /\ InitParser /\ InitTables /\ InitSCC /\ InitScoring /\ InitHarness
  /\ InitRunner
  /\ graph = EmptyMap
  /\ pc = "start"

NextMixed == Next \/ Main_RerunInterleaved

SpecMixed == InitMixed /\ [][NextMixed]_vars

(***************************************************************************)
(* Properties                                                              *)
(***************************************************************************)
\* graph reachability, by iteration to the fixed point
RECURSIVE ReachableFrom(_)
ReachableFrom(S) ==
  LET N == S \cup {w \in Range(graph.keys) : \E v \in S : w \in Range(Neighbors(v))}
  IN  IF N = S THEN S ELSE ReachableFrom(N)

Reaches(a, b) == b \in ReachableFrom({a})

ComponentsOf(w) == {k \in 1..Len(sccs) : w \in Range(sccs[k])}

\* the tokens of a text, read off its positions: the maximal runs of letters,
\* case-folded
FoldOf ==
  [c \in Chars(LowerLetters) \cup Chars(UpperLetters) |->
     Ch(LowerLetters,
        CHOOSE i \in 1..26 : c \in {Ch(LowerLetters, i), Ch(UpperLetters, i)})]

IsLetter(c) == c \in DOMAIN FoldOf

RECURSIVE Fold(_)
Fold(s) == IF s = "" THEN "" ELSE FoldOf[Head(s)] \o Fold(Tail(s))

\* the last position of the letter run that starts at position i
RunEnd(t, i) ==
  CHOOSE j \in i..Len(t) :
    /\ \A k \in i..j : IsLetter(Ch(t, k))
    /\ ~IsLetter(Ch(t, j + 1))

LetterRuns(t) ==
  {Fold(SubSeq(t, i, RunEnd(t, i))) :
     i \in {k \in 1..Len(t) : IsLetter(Ch(t, k)) /\ ~IsLetter(Ch(t, k - 1))}}

\* the content words of a definition: its case-folded maximal letter runs
\* longer than two characters that are no stop words
ContentWordSet(def) == {w \in LetterRuns(def) : Len(w) > 2 /\ w \notin STOP_WORDS}

Nodes == Range(graph.keys)

HasEdge(a, b) == b \in Range(Neighbors(a))

\* w lies on a cycle: another node is mutually reachable, or w -> w is an edge
InCycle(w) ==
  \/ \E v \in Nodes : v # w /\ Reaches(w, v) /\ Reaches(v, w)
  \/ HasEdge(w, w)

Output == outputFile[1]

RecordsOf(w) == {i \in 1..Len(Output) : Output[i].word = w}

DefinitionsOf(w) == MapGet(lemmaToDefinitions, w)

\* C1: the written list has a record for W iff W is a graph node that lies on
\* a cycle, and no word has two records.
C1_OutputIffInCycle ==
  pc = "done" =>
    /\ \A i \in 1..Len(Output) : Output[i].word \in Nodes /\ InCycle(Output[i].word)
    /\ \A w \in Nodes : InCycle(w) => RecordsOf(w) # {}
    /\ \A w \in Nodes : Cardinality(RecordsOf(w)) <= 1

\* the output holds a word with a self-loop in a singleton component and a
\* word of a larger component, and leaves a node out
C1_Witness ==
  /\ pc = "done"
  /\ \E i, j \in 1..Len(Output) : Output[i].sccSize = 1 /\ Output[j].sccSize >= 2
  /\ \E w \in Nodes : RecordsOf(w) = {}

\* C2: when findSCCs returns, the components partition the node set (every
\* node is in exactly one component, no component is empty or lists a node
\* twice), and two nodes share a component iff each reaches the other.
C2_SCCPartition ==
  pc = "wordToSCC" =>
    /\ \A w \in Range(graph.keys) : Cardinality(ComponentsOf(w)) = 1
    /\ \A k \in 1..Len(sccs) :
         /\ sccs[k] # <<>>
         /\ Range(sccs[k]) \subseteq Range(graph.keys)
         /\ Cardinality(Range(sccs[k])) = Len(sccs[k])
    /\ \A a, b \in Range(graph.keys) :
         (ComponentsOf(a) = ComponentsOf(b)) <=> (Reaches(a, b) /\ Reaches(b, a))

\* findSCCs has returned a component of three words or more, a singleton, and
\* two words of which one reaches the other but not the other way round
C2_Witness ==
  /\ pc = "wordToSCC"
  /\ \E k, j \in 1..Len(sccs) : Len(sccs[k]) >= 3 /\ Len(sccs[j]) = 1
  /\ \E a, b \in Range(graph.keys) : Reaches(a, b) /\ ~Reaches(b, a)

\* C3: the nesting of strongConnect activations does not grow with the graph:
\* on a graph of n >= 2 nodes there are never n nested activations.
C3_NestingBounded ==
  Len(graph.keys) >= 2 => Len(callStack) < Len(graph.keys)

\* C4: the nodes of the graph are the keys of lemmaToDefinitions, and A -> B
\* is an edge iff B is a key and a content word of a definition of A; each
\* edge set lists a word once.
C4_DependencyGraph ==
  pc \in {"findSCCs", "wordToSCC", "write", "done"} =>
    /\ Nodes = Range(lemmaToDefinitions.keys)
    /\ \A A \in Nodes :
         /\ Range(MapGet(graph, A)) =
              Range(lemmaToDefinitions.keys) \cap
                UNION {ContentWordSet(DefinitionsOf(A)[k].definition) :
                         k \in 1..Len(DefinitionsOf(A))}
         /\ Cardinality(Range(MapGet(graph, A))) = Len(MapGet(graph, A))

\* the graph has an edge, a node without out-edges, and a definition with a
\* content word that is no key and so no edge target
C4_Witness ==
  /\ pc = "findSCCs"
  /\ \E A, B \in Nodes : A # B /\ HasEdge(A, B)
  /\ \E A \in Nodes : MapGet(graph, A) = <<>>
  /\ \E A \in Nodes : \E k \in 1..Len(DefinitionsOf(A)) :
       ContentWordSet(DefinitionsOf(A)[k].definition) \ Nodes # {}

ToyBlocks == <<BlockLibrary[1], BlockLibrary[2], BlockLibrary[3]>>

Edges == {<<a, b>> \in Nodes \X Nodes : HasEdge(a, b)}

\* C5: on the toy corpus with no stop words the edges are entity -> thing,
\* thing -> entity and body -> entity, the components are {entity, thing} and
\* {body}, and the output has records for entity and thing only, of SCC size 2.
C5_ToyCorpus ==
  (pc = "done" /\ corpus.blocks = ToyBlocks /\ STOP_WORDS = {}) =>
    /\ Edges = {<<"entity", "thing">>, <<"thing", "entity">>, <<"body", "entity">>}
    /\ Len(sccs) = 2
    /\ {Range(sccs[k]) : k \in 1..Len(sccs)} = {{"entity", "thing"}, {"body"}}
    /\ Len(Output) = 2
    /\ {Output[i].word : i \in 1..Len(Output)} = {"entity", "thing"}
    /\ \A i \in 1..Len(Output) : Output[i].sccSize = 2

\* the pipeline has run to its end on the toy corpus with no stop words
C5_Witness ==
  /\ pc = "done"
  /\ corpus.blocks = ToyBlocks
  /\ STOP_WORDS = {}
  /\ Nodes = {"entity", "thing", "body"}

RetainedDefinitions ==
  UNION {{<<id, k>> : k \in 1..Len(MapGet(synsetDefinitions, id).definitions)} :
           id \in Range(synsetDefinitions.keys)}

RetainedText(p) == MapGet(synsetDefinitions, p[1]).definitions[p[2]]

\* C8: definitionWordCounts[w] is the number of retained definitions that
\* have w among their content words, and the counted words are the content
\* words of the retained definitions.
C8_TermFrequency ==
  pc \in {"buildGraph", "findSCCs", "wordToSCC", "write", "done"} =>
    /\ DOMAIN definitionWordCounts.val =
         UNION {ContentWordSet(RetainedText(p)) : p \in RetainedDefinitions}
    /\ \A w \in DOMAIN definitionWordCounts.val :
         MapGet(definitionWordCounts, w) =
           Cardinality({p \in RetainedDefinitions : w \in ContentWordSet(RetainedText(p))})

\* a definition names thing twice, its concept set has two lemmas, another
\* concept set has none, and thing is counted three times
C8_Witness ==
  /\ pc = "buildGraph"
  /\ STOP_WORDS = {}
  /\ corpus.blocks = <<BlockLibrary[1], BlockLibrary[7], BlockLibrary[8]>>
  /\ MapGet(definitionWordCounts, "thing") = 4

\* the lemma set of a concept set: the lowercased written forms of the
\* entries that refer to it
CorpusLemmas(id) ==
  UNION {{toLowerCase(e.lemmas[k].writtenForm) : k \in 1..Len(e.lemmas)} :
           e \in {x \in Range(EntriesOf(corpus.blocks)) : id \in Range(x.synsets)}}

HasDefinitions(y) == y.definitions # <<>>

\* the concept sets with a definition, in stream order
CorpusRetained == filter(HasDefinitions, SynsetsOf(corpus.blocks))

ExpectedEntries(W) ==
  flatten(mapSeq(
    LAMBDA y : IF W \in CorpusLemmas(y.id)
                 THEN mapSeq(LAMBDA d : [definition |-> d,
                                         partOfSpeech |-> y.partOfSpeech,
                                         synsetId |-> y.id], y.definitions)
                 ELSE <<>>,
    CorpusRetained))

CorpusWords ==
  UNION {CorpusLemmas(CorpusRetained[k].id) : k \in 1..Len(CorpusRetained)}

\* C9: lemmaToDefinitions[W] lists, in the stream order of the concept sets
\* and the order of their definitions, one entry for each definition of each
\* retained concept set that an entry with the lemma W refers to; words
\* without such a definition are no keys.
C9_LemmaIndex ==
  pc \in {"buildGraph", "findSCCs", "wordToSCC", "write", "done"} =>
    /\ Range(lemmaToDefinitions.keys) = CorpusWords
    /\ \A W \in CorpusWords : MapGet(lemmaToDefinitions, W) = ExpectedEntries(W)

\* thing is a lemma of two entries of one concept set with two definitions
\* and of an entry of another concept set: it has three entries
C9_Witness ==
  /\ pc = "buildGraph"
  /\ corpus.blocks = <<BlockLibrary[2], BlockLibrary[7]>>
  /\ Len(MapGet(lemmaToDefinitions, "thing")) = 3
  /\ MapGet(lemmaToDefinitions, "thing")[1].synsetId = "s-thing"

\* C10: when the last line has been read, the concept sets with their part of
\* speech and definitions, and the lemma set of every concept set an entry
\* refers to, are those of the corpus, whatever the order of the attributes
\* in its tags.
C10_AttributeOrder ==
  (pc = "parse" /\ lineCount = Len(fileLines)) =>
    /\ synsetDefinitions.keys = mapSeq(LAMBDA y : y.id, CorpusRetained)
    /\ \A k \in 1..Len(CorpusRetained) :
         MapGet(synsetDefinitions, CorpusRetained[k].id) =
           [definitions |-> CorpusRetained[k].definitions,
            partOfSpeech |-> CorpusRetained[k].partOfSpeech]
    /\ Range(synsetToLemmas.keys) =
         UNION {Range(e.synsets) : e \in Range(EntriesOf(corpus.blocks))}
    /\ \A id \in Range(synsetToLemmas.keys) :
         Range(MapGet(synsetToLemmas, id)) = CorpusLemmas(id)

(***************************************************************************)
(* Properties of the line loop on damaged files                            *)
(***************************************************************************)
\* the line the loop reads next, and the line it has just read
NextLine == fileLines[lineCount + 1]

LastLine == fileLines[lineCount]

ReadsLine == pc = "parse" /\ lineCount < Len(fileLines) /\ lineCount' = lineCount + 1

\* a lemma sub-record without a written form or without a part of speech
LemmaLacksAttribute(line) ==
  /\ includes(line, "<Lemma ")
  /\ ~includes(line, "writtenForm=\"") \/ ~includes(line, "partOfSpeech=\"")

\* C11: reading a lemma sub-record that lacks its written form or its part
\* of speech leaves the lemmas of the current entry as they were, and the
\* loop goes on to the next line.
C11_MalformedLemmaSkipped ==
  [][(ReadsLine /\ LemmaLacksAttribute(NextLine) /\ currentEntry # <<>>)
       => (pc' = "parse" /\ currentEntry' = currentEntry)]_vars

\* no lemma sub-record of the file lacks its part of speech
NoLemmaWithoutPartOfSpeech ==
  \A k \in 1..Len(fileLines) :
    includes(fileLines[k], "<Lemma ") => includes(fileLines[k], "partOfSpeech=\"")

ParsedAll == pc = "parse" /\ lineCount = Len(fileLines)

\* C12: when the last line of a file with unterminated and unparseable
\* records has been read, the concept sets stored and the lemma sets are
\* those of the records the file states in full: a record without its own
\* end marker has contributed nothing, and nothing of it has been merged
\* into another record.
C12_NoPartialRecord ==
  (ParsedAll /\ NoLemmaWithoutPartOfSpeech) =>
    /\ Range(synsetDefinitions.keys) =
         {CorpusRetained[k].id : k \in 1..Len(CorpusRetained)}
    /\ \A k \in 1..Len(CorpusRetained) :
         MapGet(synsetDefinitions, CorpusRetained[k].id) =
           [definitions |-> CorpusRetained[k].definitions,
            partOfSpeech |-> CorpusRetained[k].partOfSpeech]
    /\ Range(synsetToLemmas.keys) =
         UNION {Range(e.synsets) : e \in Range(EntriesOf(corpus.blocks))}
    /\ \A id \in Range(synsetToLemmas.keys) :
         Range(MapGet(synsetToLemmas, id)) = CorpusLemmas(id)

\* the words in the lemma sets of the concept sets
LemmaSetWords(s2l) == UNION {Range(MapGet(s2l, id)) : id \in Range(s2l.keys)}

\* the line read next closes a concept set that has no definition
ClosesEmptySynset ==
  /\ includes(NextLine, "</Synset>")
  /\ ~includes(NextLine, "<Synset") /\ ~includes(NextLine, "Definition>")
  /\ currentSynset # <<>> /\ currentSynset[1].definitions = <<>>

\* the line read next closes an entry that has no lemma
ClosesEmptyEntry ==
  /\ includes(NextLine, "</LexicalEntry>")
  /\ ~includes(NextLine, "<LexicalEntry ") /\ ~includes(NextLine, "<Lemma")
  /\ currentEntry # <<>> /\ currentEntry[1].lemmas = <<>>

\* every entry of lemmaToDefinitions and every counted word comes from a
\* stored concept set
TablesFromStored ==
  /\ \A W \in Range(lemmaToDefinitions.keys) :
       \A k \in 1..Len(DefinitionsOf(W)) :
         <<DefinitionsOf(W)[k].synsetId, DefinitionsOf(W)[k].definition>> \in
           {<<p[1], RetainedText(p)>> : p \in RetainedDefinitions}
  /\ DOMAIN definitionWordCounts.val =
       UNION {ContentWordSet(RetainedText(p)) : p \in RetainedDefinitions}

\* C13: closing a concept set without a definition stores nothing, so that
\* no stored concept set is without a definition, and the entries of
\* lemmaToDefinitions and the counted words all come from stored concept
\* sets; closing an entry without a lemma adds no word to any lemma set.
C13_EmptyDropped ==
  /\ [](\A id \in Range(synsetDefinitions.keys) :
          MapGet(synsetDefinitions, id).definitions # <<>>)
  /\ [](pc = "buildGraph" => TablesFromStored)
  /\ [][(ReadsLine /\ ClosesEmptySynset)
          => (synsetDefinitions' = synsetDefinitions /\ currentSynset' = <<>>)]_vars
  /\ [][(ReadsLine /\ ClosesEmptyEntry)
          => (LemmaSetWords(synsetToLemmas') = LemmaSetWords(synsetToLemmas)
              /\ currentEntry' = <<>>)]_vars

\* an entry without a lemma and a concept set without a definition have been
\* closed: the concept set is not stored, its lemma has no entry, and the
\* entry has given no word to the concept set it refers to
C13_Witness ==
  /\ pc = "buildGraph"
  /\ Len(corpus.fragments) = 3
  /\ corpus.fragments[1] = FragmentLibrary[11]
  /\ corpus.fragments[2] = FragmentLibrary[10]
  /\ corpus.fragments[3] = FragmentLibrary[2]
  /\ synsetDefinitions.keys = <<"s-entity">>
  /\ lemmaToDefinitions.keys = <<>>
  /\ DOMAIN definitionWordCounts.val = {"thing"}

\* line k holds the opening marker of a definition, the closing marker
HasOpen(k) == includes(fileLines[k], "<Definition")

HasClose(k) == includes(fileLines[k], "</Definition>")

\* after line k a definition is open: a line up to k opens one, and no line
\* from there to k closes it
InAccumulation(k) ==
  \E j \in 1..k : HasOpen(j) /\ \A i \in j..k : ~HasClose(i)

\* the first position of lit in s
IndexOf(s, lit) == MinOf({i \in 1..Len(s) : StartsAt(s, i, lit)})

\* the text of line k after the opening marker, to the end of the line or to
\* the closing marker
TextAfterOpen(k) ==
  LET line == fileLines[k]
      g == indexOfChar(line, ">", IndexOf(line, "<Definition"))
      h == IF HasClose(k) THEN IndexOf(line, "</Definition>") ELSE Len(line) + 1
  IN  SubSeq(line, g + 1, h - 1)

\* the text of line k before the closing marker
TextBeforeClose(k) == SubSeq(fileLines[k], 1, IndexOf(fileLines[k], "</Definition>") - 1)

\* the last line before k that holds an opening marker
OpenLine(k) == CHOOSE j \in 1..(k - 1) : HasOpen(j) /\ \A i \in (j + 1)..(k - 1) : ~HasOpen(i)

\* the text accumulated from the opening line j to the closing line k
RECURSIVE Intermediate(_, _)
Intermediate(i, k) ==
  IF i >= k THEN "" ELSE decodeXmlEntities(fileLines[i]) \o Intermediate(i + 1, k)

Accumulated(j, k) ==
  decodeXmlEntities(TextAfterOpen(j)) \o Intermediate(j + 1, k)
    \o decodeXmlEntities(TextBeforeClose(k))

\* the line at which the current concept set was opened
SynsetOpenLine ==
  CHOOSE o \in 1..lineCount :
    /\ includes(fileLines[o], "<Synset ") /\ includes(fileLines[o], " id=\"")
    /\ \A i \in (o + 1)..lineCount :
         ~(includes(fileLines[i], "<Synset ") /\ includes(fileLines[i], " id=\""))

\* the lines since the current concept set was opened that complete a
\* definition
CompletedSinceOpen ==
  {i \in SynsetOpenLine..lineCount :
     HasClose(i) /\ (HasOpen(i) \/ (i > 1 /\ InAccumulation(i - 1)))}

LastDefinition == currentSynset[1].definitions[Len(currentSynset[1].definitions)]

EverySynsetTagHasId ==
  \A k \in 1..Len(fileLines) :
    includes(fileLines[k], "<Synset ") => includes(fileLines[k], " id=\"")

\* C14: the parser is in accumulation mode exactly while a definition is
\* open; on the line that closes a definition opened on an earlier line the
\* accumulated text is the un-escaped text after the opening marker, the
\* un-escaped lines in between and the un-escaped text before the closing
\* marker, and it is the last definition of the current concept set; a
\* definition opened and closed on one line is the last definition at once;
\* the current concept set holds one definition for each completed one, and
\* the concept sets stored hold the definitions as the file states them.
C14_MultiLineDefinition ==
  pc = "parse" =>
    /\ inDefinition <=> (lineCount > 0 /\ InAccumulation(lineCount))
    /\ (lineCount > 1 /\ HasClose(lineCount) /\ ~HasOpen(lineCount)
          /\ InAccumulation(lineCount - 1)) =>
         /\ definitionText = Accumulated(OpenLine(lineCount), lineCount)
         /\ currentSynset # <<>> => LastDefinition = definitionText
    /\ (lineCount > 0 /\ HasClose(lineCount) /\ HasOpen(lineCount)) =>
         /\ definitionText = decodeXmlEntities(TextAfterOpen(lineCount))
         /\ currentSynset # <<>> => LastDefinition = definitionText
    /\ currentSynset # <<>> =>
         Len(currentSynset[1].definitions) = Cardinality(CompletedSinceOpen)
    /\ (lineCount = Len(fileLines) /\ EverySynsetTagHasId) =>
         \A k \in 1..Len(CorpusRetained) :
           MapGet(synsetDefinitions, CorpusRetained[k].id).definitions =
             CorpusRetained[k].definitions

\* the definition opened two lines earlier has just been closed: it is the
\* only definition of the concept set, and the parser has left accumulation
\* mode
C14_Witness ==
  /\ pc = "parse"
  /\ lineCount > 3
  /\ fileLines[lineCount] = " now</Definition>"
  /\ fileLines[lineCount - 2] = "  <Definition>to be &amp; "
  /\ ~inDefinition
  /\ currentSynset # <<>>
  /\ currentSynset[1].definitions = <<"to be & to exist <here> now">>

(***************************************************************************)
(* Properties of the ranked list                                           *)
(***************************************************************************)
\* the position of word w in the enumeration of wordToSCC
EnumerationIndex(w) == CHOOSE i \in 1..Len(wordToSCC.keys) : wordToSCC.keys[i] = w

\* C15: the ranked list is in non-increasing order of score, and of two
\* records with the same score the one whose word comes first in the
\* enumeration of wordToSCC comes first.
C15_StableDescending ==
  pc \in {"write", "done"} =>
    \A i, j \in 1..Len(primes) :
      i < j =>
        /\ primes[i].primeScore >= primes[j].primeScore
        /\ primes[i].primeScore = primes[j].primeScore
             => EnumerationIndex(primes[i].word) < EnumerationIndex(primes[j].word)

\* the list holds three records, two of them with the same score, and the
\* record with the highest score was not the first to be enumerated
C15_Witness ==
  /\ pc = "write"
  /\ Len(primes) >= 3
  /\ \E i \in 1..(Len(primes) - 1) : primes[i].primeScore = primes[i + 1].primeScore
  /\ primes[1].primeScore > primes[Len(primes)].primeScore
  /\ EnumerationIndex(primes[1].word) > 1

AfterParsing == pc \in {"buildGraph", "findSCCs", "wordToSCC", "write", "done"}

AfterGraph == pc \in {"findSCCs", "wordToSCC", "write", "done"}

\* C17: no graph exists while the tables are built; from the start of graph
\* construction on, lemmaToDefinitions and definitionWordCounts keep their
\* value, and from the start of findSCCs on the graph keeps its value.
C17_TablesReadOnly ==
  /\ [](pc \in {"start", "parse"} => graph = EmptyMap)
  /\ [][AfterParsing => /\ lemmaToDefinitions' = lemmaToDefinitions
                        /\ definitionWordCounts' = definitionWordCounts]_vars
  /\ [][AfterGraph => graph' = graph]_vars

\* the records have been ranked from tables and a graph that are not empty
C17_Witness ==
  /\ pc = "write"
  /\ Len(primes) >= 2
  /\ Len(lemmaToDefinitions.keys) >= 3
  /\ Len(definitionWordCounts.keys) >= 3
  /\ \E w \in Nodes : Neighbors(w) # <<>>

\* every stage of main has run to its end
StagesCompleted ==
  /\ lineCount = Len(fileLines)
  /\ graph.keys = lemmaToDefinitions.keys
  /\ processed = Len(graph.keys) /\ callStack = <<>>
  /\ Range(wordToSCC.keys) = Nodes
  /\ primes = sortByScore(<<>>, CollectPrimes(<<>>, wordToSCC.keys, wordToSCC))

\* C18: the result file holds the ranked list and exists only when every
\* stage has run to its end; a run with a missing file never leaves the
\* start but by exiting, a run that stops reading before the last line exits;
\* a run that has exited has a non-zero status, has written nothing and
\* takes no further step.
C18_WriteLastFailFast ==
  /\ [](outputFile # <<>> => pc = "done" /\ StagesCompleted /\ outputFile = <<primes>>)
  /\ []((~fileExists /\ pc # "start") => pc = "exit")
  /\ [](pc = "exit" => exitCode # <<>> /\ exitCode[1] # 0 /\ outputFile = <<>>)
  /\ [][(pc = "parse" /\ lineCount < Len(fileLines) /\ lineCount' = lineCount)
          => pc' = "exit"]_vars
  /\ [][pc = "exit" => pc' = "exit" /\ lineCount' = lineCount]_vars

\* reading has failed after three lines: the run has exited with status 1
\* and no result file
C18_Witness ==
  /\ pc = "exit"
  /\ fileExists
  /\ lineCount = 3
  /\ exitCode = <<1>>
  /\ outputFile = <<>>

(***************************************************************************)
(* Properties of test-all                                                  *)
(***************************************************************************)
\* the child process of suite i has closed or could not be started
ClosedOrNotStarted(i) == procs[i].state \in {"closed", "spawnFailed", "errored"}

\* the child process of suite i exited with code 0
ExitedWithZero(i) == procs[i].state = "closed" /\ procs[i].code = <<0>>

\* C19: the suites are started in the order of tests, each one only when the
\* child process of the one before has closed or could not be started; the
\* results are those of the suites in order, one each; when test-all exits,
\* every suite has been started and has its result, and the exit code is 1
\* if a suite did not exit with code 0, and 0 otherwise.
C19_TestAllSequential ==
  /\ Len(procs) <= Len(tests) /\ Len(promises) = Len(procs)
  /\ \A i \in 1..(Len(procs) - 1) : ClosedOrNotStarted(i)
  /\ Len(results) \in {Len(procs) - 1, Len(procs)} \cap Nat
  /\ \A k \in 1..Len(results) :
       /\ results[k].name = tests[k].name
       /\ results[k].passed <=> ExitedWithZero(k)
  /\ pc = "testExit" =>
       /\ Len(procs) = Len(tests) /\ Len(results) = Len(tests)
       /\ exitCode \in {<<0>>, <<1>>}
       /\ exitCode = <<1>> <=> \E i \in 1..Len(tests) : ~ExitedWithZero(i)

\* test-all has exited with code 1: the first suite failed, the second could
\* not be started, and the third ran and passed
C19_Witness ==
  /\ pc = "testExit"
  /\ exitCode = <<1>>
  /\ procs[1] = [state |-> "closed", code |-> <<1>>]
  /\ procs[2].state = "errored"
  /\ results[3].passed

(***************************************************************************)
(* Properties of the NSM extraction                                        *)
(***************************************************************************)
\* the primes the written file declares, as test-nsm-primes.mjs reads them
DeclaredPrimes == parseLinoForPrimes(outputFile[1])

DistinctSynsetIds(wordnetMatches) ==
  \A i, j \in 1..Len(wordnetMatches) :
    wordnetMatches[i].synsetId = wordnetMatches[j].synsetId => i = j

ListedUnder(name) ==
  {SEMANTIC_PRIMES[c].category :
     c \in {d \in 1..Len(SEMANTIC_PRIMES) :
              \E k \in 1..Len(SEMANTIC_PRIMES[d].primes) :
                SEMANTIC_PRIMES[d].primes[k].prime = name}}

\* C21: getAllPrimes returns 65 primes, each with the category it is listed
\* under in SEMANTIC_PRIMES, and getPrimeCount returns 65.
C21_SixtyFivePrimes ==
  pc = "primesReturned" =>
    IF text.entry = "getPrimeCount" THEN text.returned = <<65>>
    ELSE /\ Len(text.returned[1]) = 65
         /\ \A k \in 1..Len(text.returned[1]) :
              ListedUnder(text.returned[1][k].prime) = {text.returned[1][k].category}

\* what the list gives: 64 primes, each with the category it is listed under
ReferenceListCount ==
  pc = "primesReturned" =>
    IF text.entry = "getPrimeCount" THEN text.returned = <<64>>
    ELSE /\ text.returned[1] = getAllPrimes(SEMANTIC_PRIMES)
         /\ Len(text.returned[1]) = 64
         /\ \A k \in 1..Len(text.returned[1]) :
              ListedUnder(text.returned[1][k].prime) = {text.returned[1][k].category}

(***************************************************************************)
(* Properties of calculatePrimeScore                                       *)
(***************************************************************************)
\* the part of the score that does not come from the SCC size, the
\* reference count or the word length
FlagScore(in) ==
    (IF in.isInCycle THEN Points(50) ELSE 0)
  + (IF in.hasSelfLoop THEN Points(30) ELSE 0)
  + (IF in.isSelfRef THEN Points(20) ELSE 0)

\* the score with one argument replaced
WithSize(in, n) == ScoreOf([in EXCEPT !.sccSize = n])

WithCount(in, n) == ScoreOf([in EXCEPT !.refCount = n])

WithWord(in, w) == ScoreOf([in EXCEPT !.word = w])

\* C22: with the other arguments fixed the score does not decrease when the
\* SCC size or the reference count grows; the SCC size adds nothing for
\* size 1 and never more than 30 points; an undefined reference count adds
\* nothing; the word length adds 10 points up to 4 letters, 5 points for 5
\* or 6 letters and nothing for longer words; and the score is the sum of
\* these contributions and the three flag contributions.
C22_ScoreContributions ==
  pc = "scored" =>
    /\ \A n \in ScoreSizes : n >= text.sccSize => WithSize(text, n) >= result[1]
    /\ \A n \in ScoreCounts : n >= text.refCount => WithCount(text, n) >= result[1]
    /\ result[1] - WithSize(text, 1) \in 0..Points(30)
    /\ text.sccSize = 1 => result[1] = WithSize(text, 1)
    /\ WithCount(text, 0) = WithCount(text, 1)
    /\ result[1] - WithWord(text, "abstract")
         = IF Len(text.word) <= 4 THEN Points(10)
           ELSE IF Len(text.word) <= 6 THEN Points(5) ELSE 0
    /\ result[1] = FlagScore(text) + (result[1] - WithSize(text, 1))
                     + (result[1] - WithCount(text, 0))
                     + (result[1] - WithWord(text, "abstract"))

\* a score where the cap of the SCC size binds, for a word of five letters
\* without a reference count
C22_Witness ==
  /\ pc = "scored"
  /\ text.sccSize > 100
  /\ text.refCount = 0
  /\ Len(text.word) = 5
  /\ result[1] = FlagScore(text) + Points(30) + Points(5)

(***************************************************************************)
(* Properties of decodeXmlEntities                                         *)
(***************************************************************************)
\* C23: decoding the escaped form of a string gives the string back, so
\* decoded text is not decoded again (the escaped form '&amp;lt;' of '&lt;'
\* gives '&lt;', not '<'); and the
\* parser decodes the written form and every definition text it extracts:
\* from a file that holds the escaped form it stores the string itself, as
\* the (lower-cased) lemma and as the definitions.
C23_DecodeInvertsEscape ==
  /\ pc # "decode" => result = <<text>>
  /\ (pc = "parse" /\ lineCount >= 4 /\ text # "") =>
       MapGet(synsetToLemmas, "s1") = <<toLowerCase(text)>>
  /\ (pc = "parse" /\ lineCount = Len(fileLines)) =>
       MapGet(synsetDefinitions, "s1").definitions = <<text, text \o text \o text>>

\* the file of a string that holds entity text and a raw '<' has been read
C23_Witness ==
  /\ pc = "buildGraph"
  /\ includes(text, "&lt;")
  /\ includes(text, "<&amp;")
  /\ MapGet(synsetDefinitions, "s1").definitions[1] = text
  /\ result = <<text>>

(***************************************************************************)
(* Properties of traceCircularity                                          *)
(***************************************************************************)
\* the definition graph: v -> w when w is a content word of a definition of
\* v and both have an entry
TraceEdge(v, w) ==
  /\ MapHas(lemmaToDefinitions, v) /\ MapHas(lemmaToDefinitions, w)
  /\ w \in Range(NextWords(v))

RECURSIVE TraceReachable(_)
TraceReachable(S) ==
  LET T == S \cup {w \in Range(TraceLemmas) : \E v \in S : TraceEdge(v, w)}
  IN  IF T = S THEN S ELSE TraceReachable(T)

OnTraceCycle(w) ==
  \E v \in Range(TraceLemmas) : TraceEdge(w, v) /\ w \in TraceReachable({v})

\* every word recorded in wordsInCycles lies on a directed cycle, and every
\* recorded cycle is a closed path of the definition graph
WordsInCyclesOnCycle ==
  pc = "traced" =>
    /\ \A w \in Range(result.wordsInCycles) : OnTraceCycle(w)
    /\ \A c \in Range(result.cycles) :
         /\ c[1] = c[Len(c)]
         /\ \A k \in 1..(Len(c) - 1) : TraceEdge(c[k], c[k + 1])

\* C24: when traceCircularity returns hasCycle true, cycles is not empty and
\* every word of wordsInCycles lies on a directed cycle of the definition
\* graph; a word reached a second time along a path that is not circular
\* does not set hasCycle.
C24_HasCycleOnlyOnCycle ==
  (pc = "traced" /\ result.hasCycle) =>
    /\ result.cycles # <<>>
    /\ \A w \in Range(result.wordsInCycles) : OnTraceCycle(w)

(***************************************************************************)
(* Properties of the bounded-depth search                                  *)
(***************************************************************************)
\* the component findSCCs returned that has the word
InLargeSCC(word) ==
  \E k \in 1..Len(sccs) : word \in Range(sccs[k]) /\ Len(sccs[k]) > 1

\* word -> path[1] -> ... -> word is a cycle of the dependency graph through
\* distinct words
ClosesCycle(word, path) ==
  LET c == <<word>> \o path \o <<word>>
  IN  /\ \A k \in 1..(Len(c) - 1) : c[k + 1] \in Range(Neighbors(c[k]))
      /\ Cardinality(Range(c)) = Len(path) + 1

\* C25: every word that findCircularReferences records lies in a component
\* of size greater than 1 that findSCCs finds in the dependency graph of the
\* same index and stop words, and every entry recorded is a cycle of 2 or 3
\* words through the word.
C25_RecordedWordsInLargeSCC ==
  pc = "wordToSCC" =>
    \A word \in Range(result.keys) :
      /\ InLargeSCC(word)
      /\ \A e \in Range(MapGet(result, word)) :
           /\ e.depth \in {2, 3}
           /\ Len(e.path) = e.depth - 1
           /\ ClosesCycle(word, e.path)

\* an index where the search records a cycle of 3 words for every word
C25_Witness ==
  /\ pc = "wordToSCC"
  /\ Len(result.keys) = 3
  /\ \A word \in Range(result.keys) :
       \E e \in Range(MapGet(result, word)) : e.depth = 3
  /\ Len(sccs) = 1

(***************************************************************************)
(* Properties of definitions in damaged files (SpecDefinitions)            *)
(***************************************************************************)
\* line k completes a definition: it holds a closing marker, and an opening
\* marker too or a definition is open before it
CompletesDefinition(k) ==
  HasClose(k) /\ (HasOpen(k) \/ (k > 1 /\ InAccumulation(k - 1)))

\* the line that holds the opening marker of the definition line k completes
OpeningOf(k) == IF HasOpen(k) THEN k ELSE OpenLine(k)

\* the text between the opening marker and the closing marker of the
\* definition line k completes
TextBetween(k) ==
  IF HasOpen(k) THEN decodeXmlEntities(TextAfterOpen(k))
  ELSE Accumulated(OpenLine(k), k)

\* on the line that completes a definition while a concept set is open, the
\* definition added to the concept set is the text between the two markers
StoredTextBetweenMarkers ==
  (pc = "parse" /\ lineCount > 0 /\ CompletesDefinition(lineCount)
     /\ currentSynset # <<>>) =>
    LastDefinition = TextBetween(lineCount)

\* C26: on the line that completes a definition while a concept set is open,
\* the definition added to the concept set is the text between the opening
\* marker and the closing marker, and the opening marker was read while this
\* concept set was the open one, that is, not before the line that opened it.
C26_DefinitionOfOpenSynset ==
  (pc = "parse" /\ lineCount > 0 /\ CompletesDefinition(lineCount)
     /\ currentSynset # <<>>) =>
    /\ LastDefinition = TextBetween(lineCount)
    /\ OpeningOf(lineCount) >= SynsetOpenLine

(***************************************************************************)
(* Properties of the two self-reference flags (Spec)                       *)
(***************************************************************************)
\* the score of a record without the contributions of the self-loop flag and
\* the self-reference flag
ScoreWithoutSelf(p) ==
  calculatePrimeScore(p.word, p.sccSize, FALSE, p.referenceCount, FALSE, p.isInCycle)

\* C27: once the graph is built, a word has the edge to itself iff it is in
\* selfReferences; every record of the output has equal self-loop and
\* self-reference flags, and its score holds the 30 and the 20 points of the
\* two flags together or neither.
C27_SelfLoopIffSelfReference ==
  /\ pc \in {"findSCCs", "wordToSCC", "write", "done"} =>
       \A W \in Nodes \cup Range(selfReferences) :
         HasEdge(W, W) <=> W \in Range(selfReferences)
  /\ pc = "done" =>
       \A i \in 1..Len(Output) :
         /\ Output[i].hasSelfLoop <=> Output[i].isSelfReference
         /\ Output[i].primeScore - ScoreWithoutSelf(Output[i]) =
              IF Output[i].hasSelfLoop THEN Points(50) ELSE 0

\* the output holds a record with both flags set in a component of two words
\* or more, and a record with neither
C27_Witness ==
  /\ pc = "done"
  /\ \E i, j \in 1..Len(Output) :
       /\ Output[i].hasSelfLoop /\ Output[i].isSelfReference
       /\ Output[i].sccSize >= 2
       /\ ~Output[j].hasSelfLoop /\ ~Output[j].isSelfReference

(***************************************************************************)
(* Properties of the reference count of the output records (Spec)          *)
(***************************************************************************)
\* C28: every record of the output has a reference count of at least 1: its
\* word is a key of definitionWordCounts, the record holds the count stored
\* there, and the word is a content word of a retained definition.
C28_ReferenceCountPositive ==
  pc = "done" =>
    \A i \in 1..Len(Output) :
      /\ MapHas(definitionWordCounts, Output[i].word)
      /\ Output[i].referenceCount = MapGet(definitionWordCounts, Output[i].word)
      /\ Output[i].referenceCount >= 1
      /\ \E p \in RetainedDefinitions : Output[i].word \in ContentWordSet(RetainedText(p))

\* the output holds a record with the count 1 and a record with a larger
\* count, and a node that no retained definition names has no record
C28_Witness ==
  /\ pc = "done"
  /\ \E i, j \in 1..Len(Output) :
       Output[i].referenceCount = 1 /\ Output[j].referenceCount >= 2
  /\ \E w \in Nodes : ~MapHas(definitionWordCounts, w) /\ RecordsOf(w) = {}

(***************************************************************************)
(* Properties of a larger stop-word set (SpecStop)                         *)
(***************************************************************************)
\* C29: when the second run, whose stop words include those of the first,
\* has ended, its lemmaToDefinitions and its graph nodes are those of the
\* first run, its edges are edges of the first run, each of its components
\* lies within a component of the first run, and the words of its output are
\* words of the output of the first run.
C29_MoreStopWordsAddNothing ==
  (pc = "done" /\ firstRun # <<>>) =>
    /\ firstRun[1].stopWords \subseteq STOP_WORDS
    /\ lemmaToDefinitions = firstRun[1].lemmaToDefinitions
    /\ Tables.nodes = firstRun[1].nodes
    /\ Tables.edges \subseteq firstRun[1].edges
    /\ \A c \in Tables.sccs : \E d \in firstRun[1].sccs : c \subseteq d
    /\ Tables.words \subseteq firstRun[1].words

\* the second run has ended with more stop words than the first, fewer edges,
\* a component of the first run split, and fewer words in the output, which
\* is not empty
C29_Witness ==
  /\ pc = "done" /\ firstRun # <<>>
  /\ firstRun[1].stopWords # STOP_WORDS
  /\ Tables.edges # firstRun[1].edges
  /\ Tables.sccs # firstRun[1].sccs
  /\ Tables.words # firstRun[1].words
  /\ Tables.words # {}

(***************************************************************************)
(* Properties of the interleaving of the records (SpecMixed)               *)
(***************************************************************************)
\* C30: when the second run has ended, on a file with the records of the
\* first in another interleaving, its lemmaToDefinitions, definitionWordCounts,
\* selfReferences, graph and output are those of the first run.
C30_InterleavingIrrelevant ==
  (pc = "done" /\ firstRun # <<>>) =>
    /\ lemmaToDefinitions = firstRun[1].lemmaToDefinitions
    /\ definitionWordCounts = firstRun[1].definitionWordCounts
    /\ selfReferences = firstRun[1].selfReferences
    /\ graph = firstRun[1].graph
    /\ outputFile = firstRun[1].output

\* the second run has ended on a file that begins with a concept set, after
\* a first run on a file with an entry between two concept sets; the tables
\* have keys and the output has records
C30_Witness ==
  /\ pc = "done" /\ firstRun # <<>>
  /\ fileLines # firstRun[1].fileLines
  /\ startsWith(fileLines[2], "<Synset")
  /\ \E i, j, k \in 1..Len(firstRun[1].fileLines) :
       /\ i < j /\ j < k
       /\ startsWith(firstRun[1].fileLines[i], "<Synset")
       /\ startsWith(firstRun[1].fileLines[j], "<LexicalEntry")
       /\ startsWith(firstRun[1].fileLines[k], "<Synset")
  /\ lemmaToDefinitions.keys # <<>>
  /\ Len(Output) >= 2

====
